---------------------------- MODULE Spec2Model ----------------------------
(***************************************************************************)
(* Model of the ezo-ph driver: the response parsers of src/response.rs,    *)
(* the command types, encoders and parsers of src/command.rs, the          *)
(* PhCommand encoder and the CommandOptions transaction of src/lib.rs.     *)
(*                                                                         *)
(* Text is a sequence of characters, each character a one-character        *)
(* string; KelvinSign stands for the one non-ASCII character of the        *)
(* inputs (U+212A, three bytes in UTF-8).                                  *)
(* An f64 is [k, n, d]: k = "fin" is the decimal n / 10^d with d minimal,  *)
(* k = "inf" is the infinity of sign n, k = "nan" is NaN.  The inputs carry *)
(* so few digits that distinct decimals are distinct f64 values; exponent  *)
(* notation is not among the inputs.                                       *)
(***************************************************************************)
EXTENDS Integers, Sequences, FiniteSets, TLC

VARIABLES
    parser,       \* response.rs: the parser the caller has chosen
    payload,      \* response.rs: the payload the caller gives it
    parsed,       \* response.rs: what it returned (NotCalled before the call)
    cop,          \* command.rs, lib.rs: the operation the caller has chosen
    ctype,        \* the command type it is called on
    text,         \* from_str: the text to parse
    cmd,          \* the command value the operation is called on
    tieUp,        \* whether an f64 whose decimal form ends in a tie (...5)
                  \* lies above it in binary, so that {:.N} rounds it up
    result,       \* what from_str returned (NotCalled before any call)
    wire,         \* what get_command_string returned
    delay,        \* what get_delay returned
    options,      \* the CommandOptions that build returned
    called,       \* whether the operation has returned
    pc,           \* lib.rs run: the statement the call has reached
    opts,         \* the CommandOptions that run is called on (self)
    data_buffer,  \* the local buffer that dev.read fills
    events,       \* what run has done to the device, the clock and stdout
    ret,          \* what run returned (NotCalled while it runs)
    last,         \* lib.rs: the last call on the CommandOptions before run
    copy,         \* what finish returned
    history,      \* the calls of run that have returned, oldest first
    lpc,          \* read-loop.rs: the statement the example has reached
    sent          \* the commands the example has run, with their outcomes

respVars == <<parser, payload, parsed>>
cmdVars ==
    <<cop, ctype, text, cmd, tieUp, result, wire, delay, options, called>>
runVars == <<pc, opts, data_buffer, events, ret>>
sessVars == <<last, copy, history>>
loopVars == <<lpc, sent>>
vars == <<respVars, cmdVars, runVars, sessVars, loopVars>>

-----------------------------------------------------------------------------
(* Bounds of the inputs.                                                   *)

\* longest character-level payload given to SensorReading::parse
MaxLen == 4
\* most comma-separated fields after a response prefix
MaxFields == 3
\* longest free text appended to a command prefix
MaxTail == 2
\* largest f64 parameter of the dense range, in thousandths
MaxMilli == 15
\* longest free calibration string of a constructed Import
MaxImport == 2
\* largest device address of the dense range
MaxAddr == 20
\* bytes of the read buffer that are modelled, of its MAX_RESPONSE_LENGTH
BufLen == 3
\* calls of run on one CommandOptions
MaxRuns == 2
\* turns of the loop of the example
MaxLoops == 3

-----------------------------------------------------------------------------
(* Characters and text.                                                    *)

KelvinSign == "U+212A"

\* a character that is not printable: U+0001, one byte in UTF-8
ControlChar == "U+0001"

LowerLetters ==
    <<"a","b","c","d","e","f","g","h","i","j","k","l","m",
      "n","o","p","q","r","s","t","u","v","w","x","y","z">>

UpperLetters ==
    <<"A","B","C","D","E","F","G","H","I","J","K","L","M",
      "N","O","P","Q","R","S","T","U","V","W","X","Y","Z">>

Digits == <<"0","1","2","3","4","5","6","7","8","9">>

IsDigit(c) == \E i \in 1..10 : Digits[i] = c

DigitVal(c) == (CHOOSE i \in 1..10 : Digits[i] = c) - 1

\* char::to_uppercase: a..z to A..Z; the Kelvin sign is an upper-case letter
\* already and every other character of the inputs has no upper-case form.
UpperChar(c) ==
    IF \E i \in 1..26 : LowerLetters[i] = c
    THEN UpperLetters[CHOOSE i \in 1..26 : LowerLetters[i] = c]
    ELSE c

\* str::len: the number of bytes of the UTF-8 text
RECURSIVE ByteLen(_)
ByteLen(s) ==
    IF s = <<>> THEN 0
    ELSE (IF Head(s) = KelvinSign THEN 3 ELSE 1) + ByteLen(Tail(s))

\* a comparison of the prefix that takes a letter for its upper-case form
StartsWith_anycase(s, p) ==
    /\ Len(s) >= Len(p)
    /\ [i \in 1..Len(p) |-> UpperChar(s[i])] = p

\* str::starts_with
StartsWith(s, p) == Len(s) >= Len(p) /\ SubSeq(s, 1, Len(p)) = p

\* s.get(n..).unwrap() after s.starts_with(p) with Len(p) = n
Rest(s, n) == SubSeq(s, n + 1, Len(s))

\* str::split(','): the fields between the commas, in order; the empty text
\* has one empty field, and a trailing comma ends with an empty field.
RECURSIVE Split(_)
Split(s) ==
    IF \A i \in 1..Len(s) : s[i] # ","
    THEN <<s>>
    ELSE LET i == CHOOSE j \in 1..Len(s) :
                      s[j] = "," /\ \A k \in 1..(j - 1) : s[k] # ","
         IN  <<SubSeq(s, 1, i - 1)>> \o Split(SubSeq(s, i + 1, Len(s)))

\* the k-th call of split.next(): Some(field) while fields are left
HasNext(fields, k) == k <= Len(fields)

-----------------------------------------------------------------------------
(* Numbers.                                                                *)

RECURSIVE Pow10(_)
Pow10(d) == IF d = 0 THEN 1 ELSE 10 * Pow10(d - 1)

RECURSIVE Normal(_, _)
Normal(n, d) ==
    IF d > 0 /\ n % 10 = 0 THEN Normal(n \div 10, d - 1)
    ELSE [k |-> "fin", n |-> n, d |-> d]

Fin(n, d) == Normal(n, d)
Infinity(sign) == [k |-> "inf", n |-> sign, d |-> 0]
NaN == [k |-> "nan", n |-> 0, d |-> 0]

\* f64 comparison with an integer limit; every comparison with NaN is false
F64Ge(v, lim) ==
    \/ v.k = "fin" /\ v.n >= lim * Pow10(v.d)
    \/ v.k = "inf" /\ v.n > 0

F64Le(v, lim) ==
    \/ v.k = "fin" /\ v.n <= lim * Pow10(v.d)
    \/ v.k = "inf" /\ v.n < 0

\* f64 == f64 (PartialEq): NaN equals nothing
F64Eq(a, b) == a.k # "nan" /\ b.k # "nan" /\ a = b

RECURSIVE DigitsVal(_)
DigitsVal(s) ==
    IF s = <<>> THEN 0
    ELSE 10 * DigitsVal(SubSeq(s, 1, Len(s) - 1)) + DigitVal(s[Len(s)])

AllDigits(s) == \A i \in 1..Len(s) : IsDigit(s[i])

Ok(v) == [ok |-> TRUE, val |-> v, err |-> "None"]
Err(kind) == [ok |-> FALSE, val |-> "None", err |-> kind]

\* f64::from_str: an optional sign, then digits with at most one point and a
\* digit on at least one side of it, or the words inf and NaN as written.
F64FromStr(s) ==
    IF s = <<>> THEN Err("ParseFloatError")
    ELSE
    LET signed == s[1] = "+" \/ s[1] = "-"
        sign   == IF s[1] = "-" THEN -1 ELSE 1
        body   == IF signed THEN Tail(s) ELSE s
        dots   == {i \in 1..Len(body) : body[i] = "."}
        dot    == IF dots = {} THEN Len(body) + 1
                  ELSE CHOOSE i \in dots : \A j \in dots : i <= j
        int    == SubSeq(body, 1, dot - 1)
        frac   == SubSeq(body, dot + 1, Len(body))
    IN  IF /\ AllDigits(int)
           /\ AllDigits(frac)
           /\ Len(int) + Len(frac) > 0
        THEN Ok(Fin(sign * DigitsVal(int \o frac), Len(frac)))
        ELSE IF body = <<"i","n","f">> THEN Ok(Infinity(sign))
        ELSE IF body = <<"N","a","N">> THEN Ok(NaN)
        ELSE Err("ParseFloatError")

\* u16::MAX
U16Max == 65535

\* the checked accumulation of u16::from_str: the value of the digits, or
\* U16Max + 1 once it has overflowed
RECURSIVE U16Digits(_, _)
U16Digits(s, acc) ==
    IF s = <<>> THEN acc
    ELSE LET next == 10 * acc + DigitVal(Head(s))
         IN  IF next > U16Max THEN U16Max + 1 ELSE U16Digits(Tail(s), next)

\* u16::from_str with an accumulation that wraps at 2^16
U16FromStr_wrapping(s) ==
    LET body == IF s # <<>> /\ s[1] = "+" THEN Tail(s) ELSE s
    IN  IF body = <<>> \/ ~AllDigits(body) THEN Err("ParseIntError")
        ELSE Ok(DigitsVal(body) % (U16Max + 1))

\* u16::from_str: an optional +, then one or more digits, no overflow
U16FromStr(s) ==
    LET body == IF s # <<>> /\ s[1] = "+" THEN Tail(s) ELSE s
    IN  IF body = <<>> \/ ~AllDigits(body) THEN Err("ParseIntError")
        ELSE IF U16Digits(body, 0) > U16Max THEN Err("ParseIntError")
        ELSE Ok(U16Digits(body, 0))

-----------------------------------------------------------------------------
(* The response parsers of response.rs.                                    *)

PROBE_LOWER_LIMIT == 0
PROBE_UPPER_LIMIT == 14

\* the longest export line, exclusive (the pattern 1..13)
ExportLenEnd == 13

PrefixCal    == <<"?","C","A","L",",">>
PrefixExport == <<"?","E","X","P","O","R","T",",">>
PrefixInfo   == <<"?","I",",">>
PrefixLed    == <<"?","L",",">>
PrefixPlock  == <<"?","P","L","O","C","K",",">>
PrefixSlope  == <<"?","S","L","O","P","E",",">>
PrefixStatus == <<"?","S","T","A","T","U","S",",">>
PrefixT      == <<"?","T",",">>
StarDone     == <<"*","D","O","N","E">>

\* CalibrationStatus::parse without its second split.next(): the first field
\* decides and what follows it is dropped
CalibrationStatus_parse_truncating(response) ==
    IF StartsWith(response, PrefixCal)
    THEN LET first == Split(Rest(response, 5))[1]
         IN  IF first = <<"3">> THEN Ok("ThreePoint")
             ELSE IF first = <<"2">> THEN Ok("TwoPoint")
             ELSE IF first = <<"1">> THEN Ok("OnePoint")
             ELSE IF first = <<"0">> THEN Ok("NotCalibrated")
             ELSE Err("ResponseParse")
    ELSE Err("ResponseParse")

\* CalibrationStatus::parse with one more arm: Some("4") is ThreePoint too
CalibrationStatus_parse_four(response) ==
    IF StartsWith(response, PrefixCal)
    THEN LET split == Split(Rest(response, 5))
             first == split[1]
         IN  IF first \notin {<<"4">>, <<"3">>, <<"2">>, <<"1">>, <<"0">>}
             THEN Err("ResponseParse")
             ELSE IF HasNext(split, 2) THEN Err("ResponseParse")
             ELSE IF first = <<"4">> THEN Ok("ThreePoint")
             ELSE IF first = <<"3">> THEN Ok("ThreePoint")
             ELSE IF first = <<"2">> THEN Ok("TwoPoint")
             ELSE IF first = <<"1">> THEN Ok("OnePoint")
             ELSE Ok("NotCalibrated")
    ELSE Err("ResponseParse")

CalibrationStatus_parse(response) ==
    IF StartsWith(response, PrefixCal)
    THEN LET split == Split(Rest(response, 5))
             first == split[1]
         IN  IF first \notin {<<"3">>, <<"2">>, <<"1">>, <<"0">>}
             THEN Err("ResponseParse")
             ELSE IF HasNext(split, 2) THEN Err("ResponseParse")
             ELSE IF first = <<"3">> THEN Ok("ThreePoint")
             ELSE IF first = <<"2">> THEN Ok("TwoPoint")
             ELSE IF first = <<"1">> THEN Ok("OnePoint")
             ELSE Ok("NotCalibrated")
    ELSE Err("ResponseParse")

\* Exported::parse with the pattern 1..14
Exported_parse_longer(response) ==
    IF StartsWith(response, <<"*">>)
    THEN IF response = StarDone
         THEN Ok([t |-> "Done", s |-> <<>>])
         ELSE Err("ResponseParse")
    ELSE IF ByteLen(response) >= 1 /\ ByteLen(response) <= ExportLenEnd
         THEN Ok([t |-> "ExportString", s |-> response])
         ELSE Err("ResponseParse")

Exported_parse(response) ==
    IF StartsWith(response, <<"*">>)
    THEN IF response = StarDone
         THEN Ok([t |-> "Done", s |-> <<>>])
         ELSE Err("ResponseParse")
    ELSE IF ByteLen(response) >= 1 /\ ByteLen(response) < ExportLenEnd
         THEN Ok([t |-> "ExportString", s |-> response])
         ELSE Err("ResponseParse")

ExportedInfo_parse(response) ==
    IF StartsWith(response, PrefixExport)
    THEN LET split == Split(Rest(response, 8))
             lines == U16FromStr(split[1])
         IN  IF ~lines.ok THEN Err("ResponseParse")
             ELSE IF ~HasNext(split, 2) THEN Err("ResponseParse")
             ELSE LET total_bytes == U16FromStr(split[2])
                  IN  IF ~total_bytes.ok THEN Err("ResponseParse")
                      ELSE IF HasNext(split, 3) THEN Err("ResponseParse")
                      ELSE Ok([lines |-> lines.val,
                               total_bytes |-> total_bytes.val])
    ELSE Err("ResponseParse")

\* DeviceInfo::parse with a firmware that may be missing
DeviceInfo_parse_optional(response) ==
    IF StartsWith(response, PrefixInfo)
    THEN LET split == Split(Rest(response, 3))
         IN  IF HasNext(split, 3) THEN Err("ResponseParse")
             ELSE Ok([device |-> split[1],
                      firmware |-> IF HasNext(split, 2) THEN split[2]
                                   ELSE <<>>])
    ELSE Err("ResponseParse")

DeviceInfo_parse(response) ==
    IF StartsWith(response, PrefixInfo)
    THEN LET split == Split(Rest(response, 3))
         IN  IF ~HasNext(split, 2) THEN Err("ResponseParse")
             ELSE IF HasNext(split, 3) THEN Err("ResponseParse")
             ELSE Ok([device |-> split[1], firmware |-> split[2]])
    ELSE Err("ResponseParse")

\* LedStatus::parse that looks at the first character after the prefix only
LedStatus_parse_first(response) ==
    IF StartsWith(response, PrefixLed)
    THEN LET rest == Rest(response, 3)
         IN  IF rest # <<>> /\ rest[1] = "1" THEN Ok("On")
             ELSE IF rest # <<>> /\ rest[1] = "0" THEN Ok("Off")
             ELSE Err("ResponseParse")
    ELSE Err("ResponseParse")

LedStatus_parse(response) ==
    IF StartsWith(response, PrefixLed)
    THEN LET rest == Rest(response, 3)
         IN  IF rest = <<"1">> THEN Ok("On")
             ELSE IF rest = <<"0">> THEN Ok("Off")
             ELSE Err("ResponseParse")
    ELSE Err("ResponseParse")

ProtocolLockStatus_parse(response) ==
    IF StartsWith(response, PrefixPlock)
    THEN LET split == Split(Rest(response, 7))
             first == split[1]
         IN  IF first \notin {<<"1">>, <<"0">>} THEN Err("ResponseParse")
             ELSE IF HasNext(split, 2) THEN Err("ResponseParse")
             ELSE IF first = <<"1">> THEN Ok("On")
             ELSE Ok("Off")
    ELSE Err("ResponseParse")

\* SensorReading::parse with the upper limit exclusive (v < 14.0)
SensorReading_parse_exclusive(response) ==
    LET val == F64FromStr(response)
    IN  IF ~val.ok THEN Err("ResponseParse")
        ELSE IF /\ F64Ge(val.val, PROBE_LOWER_LIMIT)
                /\ F64Le(val.val, PROBE_UPPER_LIMIT)
                /\ val.val # Fin(PROBE_UPPER_LIMIT, 0)
             THEN Ok(val.val)
             ELSE Err("InvalidReading")

SensorReading_parse(response) ==
    LET val == F64FromStr(response)
    IN  IF ~val.ok THEN Err("ResponseParse")
        ELSE IF /\ F64Ge(val.val, PROBE_LOWER_LIMIT)
                /\ F64Le(val.val, PROBE_UPPER_LIMIT)
             THEN Ok(val.val)
             ELSE Err("InvalidReading")

\* ProbeSlope::parse with a base end that may be missing
ProbeSlope_parse_lenient(response) ==
    IF StartsWith(response, PrefixSlope)
    THEN LET split == Split(Rest(response, 7))
             acid_end == F64FromStr(split[1])
         IN  IF ~acid_end.ok THEN Err("ResponseParse")
             ELSE IF ~HasNext(split, 2)
             THEN Ok([acid_end |-> acid_end.val, base_end |-> acid_end.val])
             ELSE LET base_end == F64FromStr(split[2])
                  IN  IF ~base_end.ok THEN Err("ResponseParse")
                      ELSE IF HasNext(split, 3) THEN Err("ResponseParse")
                      ELSE Ok([acid_end |-> acid_end.val,
                               base_end |-> base_end.val])
    ELSE Err("ResponseParse")

ProbeSlope_parse(response) ==
    IF StartsWith(response, PrefixSlope)
    THEN LET split == Split(Rest(response, 7))
             acid_end == F64FromStr(split[1])
         IN  IF ~acid_end.ok THEN Err("ResponseParse")
             ELSE IF ~HasNext(split, 2) THEN Err("ResponseParse")
             ELSE LET base_end == F64FromStr(split[2])
                  IN  IF ~base_end.ok THEN Err("ResponseParse")
                      ELSE IF HasNext(split, 3) THEN Err("ResponseParse")
                      ELSE Ok([acid_end |-> acid_end.val,
                               base_end |-> base_end.val])
    ELSE Err("ResponseParse")

\* the match on the reason code with a last arm that takes every code
RestartReasonOf_lenient(code) ==
    IF code = <<"P">> THEN "PoweredOff"
    ELSE IF code = <<"S">> THEN "SoftwareReset"
    ELSE IF code = <<"B">> THEN "BrownOut"
    ELSE IF code = <<"W">> THEN "Watchdog"
    ELSE "Unknown"

RestartReasonOf(code) ==
    IF code = <<"P">> THEN "PoweredOff"
    ELSE IF code = <<"S">> THEN "SoftwareReset"
    ELSE IF code = <<"B">> THEN "BrownOut"
    ELSE IF code = <<"W">> THEN "Watchdog"
    ELSE IF code = <<"U">> THEN "Unknown"
    ELSE "None"

DeviceStatus_parse(response) ==
    IF StartsWith(response, PrefixStatus)
    THEN LET split == Split(Rest(response, 8))
             restart_reason == RestartReasonOf(split[1])
         IN  IF restart_reason = "None" THEN Err("ResponseParse")
             ELSE IF ~HasNext(split, 2) THEN Err("ResponseParse")
             ELSE LET voltage == F64FromStr(split[2])
                  IN  IF ~voltage.ok THEN Err("ResponseParse")
                      ELSE IF HasNext(split, 3) THEN Err("ResponseParse")
                      ELSE Ok([restart_reason |-> restart_reason,
                               vcc_voltage |-> voltage.val])
    ELSE Err("ResponseParse")

CompensationValue_parse(response) ==
    IF StartsWith(response, PrefixT)
    THEN LET val == F64FromStr(Rest(response, 3))
         IN  IF ~val.ok THEN Err("ResponseParse") ELSE Ok(val.val)
    ELSE Err("ResponseParse")

-----------------------------------------------------------------------------
(* The payloads given to the response parsers.                             *)

\* char::to_lowercase: A..Z to a..z, and the Kelvin sign to k
LowerChar(c) ==
    IF c = KelvinSign THEN "k"
    ELSE IF \E i \in 1..26 : UpperLetters[i] = c
    THEN LowerLetters[CHOOSE i \in 1..26 : UpperLetters[i] = c]
    ELSE c

ToLower(s) == [i \in 1..Len(s) |-> LowerChar(s[i])]

\* the first letter kept, the others in lower case ("?Status,")
Capitalised(s) ==
    [i \in 1..Len(s) |-> IF i <= 2 THEN s[i] ELSE LowerChar(s[i])]

RECURSIVE Join(_)
Join(fields) ==
    IF Len(fields) = 1 THEN fields[1]
    ELSE fields[1] \o <<",">> \o Join(Tail(fields))

RECURSIVE Rep(_, _)
Rep(c, n) == IF n = 0 THEN <<>> ELSE <<c>> \o Rep(c, n - 1)

RECURSIVE Words(_, _)
Words(alphabet, n) ==
    IF n = 0 THEN {<<>>}
    ELSE LET shorter == Words(alphabet, n - 1)
         IN  shorter \cup {w \o <<c>> : w \in shorter, c \in alphabet}

RespFields ==
    { <<>>, <<"0">>, <<"1">>, <<"-","1",".","5">>, <<"P">>, <<"x">> }

RespTails ==
    UNION { {Join(fs) : fs \in [1..n -> RespFields]} : n \in 1..MaxFields }

PrefixVariants(p) == {p, ToLower(p), Capitalised(p), <<>>}

Prefixed(p, extra) ==
    {v \o t : v \in PrefixVariants(p), t \in RespTails \cup extra}

NumAlphabet == {"0", "1", "4", ".", "-", "x"}

ReadingPayloads ==
    Words(NumAlphabet, MaxLen)
      \cup { <<"1","2",".","5">>, <<"-","0",".","5">>, <<"1","4",".","0","0">>,
             <<"1","4",".","0","1">>, <<"1","0",".","5",".","5">>,
             <<"+","7">>, <<"i","n","f">>, <<"-","i","n","f">>,
             <<"N","a","N">>, <<"n","a","n">>, <<"7",",">>, <<"?","T",",","7">> }

ExportPayloads ==
    {Rep("A", n) : n \in 0..(ExportLenEnd + 2)}
      \cup {Rep(KelvinSign, n) : n \in 3..5}
      \cup { StarDone, <<"*">>, StarDone \o <<"*">>, <<"*">> \o StarDone,
             <<"*","d","o","n","e">>, <<"D","O","N","E">>,
             <<"1","0",",","*","D","O","N">>,
             <<ControlChar>>, <<"A", ControlChar, "B">> }
      \cup RespTails

CalExtra ==
    { <<"2">>, <<"3">>, <<"4">>, <<"2",".">>, <<"-","1">>, <<"b">>,
      <<"3",",">>, <<"1","7">> }

ExportInfoExtra ==
    { <<"6","5","5","3","5",",","6","5","5","3","5">>,
      <<"6","5","5","3","6",",","0">>, <<"0",",","6","5","5","3","6">>,
      <<"1","1",",","1","2","0",",","1","0">>, <<"1","0","1","2">>,
      <<"+","1",",","0","0","7">>, <<"-","1",",","0">> }

InfoExtra ==
    { <<"P","H",",","1",".","9","8">>, <<"a",",","b",",","c">> }

LedExtra == { <<"b">>, <<"1","7">>, <<"5","7">>, <<"b",",","1">> }

SlopeExtra ==
    { <<"9","9",".","7",",","-","1","0","0",".","3">>,
      <<"1",",","f","o","o">>, <<"1",",","f","o","o",",">>,
      <<"N","a","N",",","i","n","f">> }

StatusExtra ==
    { <<c, ",", "1", ".", "5">> : c \in {"P", "S", "B", "W", "U", "X", "p"} }
      \cup { <<"P",",","1",".","5",",">>, <<"P","S",",","1">>, <<"X",",">>,
             <<"P",",","N","a","N">>, <<"U",",","-","i","n","f">>,
             <<"P",",","1",".","5",".">> }

CompensationExtra ==
    { <<"1","4",".","5","6">>, <<"X",".","0","0">>, <<"1",".","2",",","4","3">>,
      <<"1",".","5",",">> }

ResponseParse(name, response) ==
    CASE name = "CalibrationStatus"  -> CalibrationStatus_parse(response)
      [] name = "Exported"           -> Exported_parse(response)
      [] name = "ExportedInfo"       -> ExportedInfo_parse(response)
      [] name = "DeviceInfo"         -> DeviceInfo_parse(response)
      [] name = "LedStatus"          -> LedStatus_parse(response)
      [] name = "ProtocolLockStatus" -> ProtocolLockStatus_parse(response)
      [] name = "SensorReading"      -> SensorReading_parse(response)
      [] name = "ProbeSlope"         -> ProbeSlope_parse(response)
      [] name = "DeviceStatus"       -> DeviceStatus_parse(response)
      [] name = "CompensationValue"  -> CompensationValue_parse(response)

-----------------------------------------------------------------------------
(* Command values of command.rs and lib.rs: t is the type (the variant of  *)
(* PhCommand), n the BpsRate or the device address, v the f64 parameter,   *)
(* s the calibration string.                                               *)

Cmd0(t)    == [t |-> t, n |-> 0, v |-> Fin(0, 0), s |-> <<>>]
CmdN(t, n) == [t |-> t, n |-> n, v |-> Fin(0, 0), s |-> <<>>]
CmdV(t, v) == [t |-> t, n |-> 0, v |-> v, s |-> <<>>]
CmdS(t, s) == [t |-> t, n |-> 0, v |-> Fin(0, 0), s |-> s]

CommandTypes ==
    { "Baud", "CalibrationMid", "CalibrationLow", "CalibrationHigh",
      "CalibrationClear", "CalibrationState", "Export", "ExportInfo",
      "Import", "Factory", "Find", "DeviceAddress", "DeviceInformation",
      "LedOn", "LedOff", "LedState", "ProtocolLockEnable",
      "ProtocolLockDisable", "ProtocolLockState", "Reading", "Slope",
      "Status", "Sleep", "TemperatureCompensation",
      "CompensatedTemperatureValue" }

F64Types ==
    { "CalibrationMid", "CalibrationLow", "CalibrationHigh",
      "TemperatureCompensation" }

ParamTypes == F64Types \cup {"Baud", "Import", "DeviceAddress"}

\* derive(PartialEq) on the command structs: f64 fields compare as f64
CmdEq(a, b) ==
    /\ a.t = b.t
    /\ a.n = b.n
    /\ a.s = b.s
    /\ IF a.t \in F64Types THEN F64Eq(a.v, b.v) ELSE a.v = b.v

BpsRates == {300, 1200, 2400, 9600, 19200, 38400, 57600, 115200}

\* the text as it is, in the place of str::to_uppercase
ToUpper_asis(s) == s

\* str::to_uppercase
ToUpper(s) == [i \in 1..Len(s) |-> UpperChar(s[i])]

\* {} of an unsigned integer
RECURSIVE IntText(_)
IntText(n) ==
    IF n < 10 THEN <<Digits[n + 1]>>
    ELSE IntText(n \div 10) \o <<Digits[(n % 10) + 1]>>

\* the last prec digits of m, zero-padded
RECURSIVE FracText(_, _)
FracText(m, prec) ==
    IF prec = 0 THEN <<>>
    ELSE FracText(m \div 10, prec - 1) \o <<Digits[(m % 10) + 1]>>

Abs(n) == IF n < 0 THEN -n ELSE n

\* the digits of |v| rounded to prec decimals
Rounded(v, prec) ==
    IF v.d <= prec THEN Abs(v.n) * Pow10(prec - v.d)
    ELSE LET unit == Pow10(v.d - prec)
             q    == Abs(v.n) \div unit
             r    == Abs(v.n) % unit
         IN  IF 2 * r > unit \/ (2 * r = unit /\ tieUp) THEN q + 1 ELSE q

\* {:.*} with precision prec of an f64
FmtFixed(v, prec) ==
    IF v.k = "nan" THEN <<"N", "a", "N">>
    ELSE IF v.k = "inf"
    THEN (IF v.n < 0 THEN <<"-">> ELSE <<>>) \o <<"i", "n", "f">>
    ELSE (IF v.n < 0 THEN <<"-">> ELSE <<>>)
           \o IntText(Rounded(v, prec) \div Pow10(prec))
           \o <<".">>
           \o FracText(Rounded(v, prec) % Pow10(prec), prec)

\* {} of an f64: the shortest decimal that reads back as the value
FmtDisplay(v) ==
    IF v.k = "nan" THEN <<"N", "a", "N">>
    ELSE IF v.k = "inf"
    THEN (IF v.n < 0 THEN <<"-">> ELSE <<>>) \o <<"i", "n", "f">>
    ELSE (IF v.n < 0 THEN <<"-">> ELSE <<>>)
           \o IntText(Abs(v.n) \div Pow10(v.d))
           \o (IF v.d = 0 THEN <<>>
               ELSE <<".">> \o FracText(Abs(v.n) % Pow10(v.d), v.d))

-----------------------------------------------------------------------------
(* command.rs: the define_command! invocations.                            *)

\* the wire string of a command without parameter, the prefix of one with
Stem(t) ==
    CASE t = "Baud"                        -> <<"B", "A", "U", "D", ",">>
      [] t = "CalibrationMid"              -> <<"C", "A", "L", ",", "M", "I", "D", ",">>
      [] t = "CalibrationLow"              -> <<"C", "A", "L", ",", "L", "O", "W", ",">>
      [] t = "CalibrationHigh"             -> <<"C", "A", "L", ",", "H", "I", "G", "H", ",">>
      [] t = "CalibrationClear"            -> <<"C", "A", "L", ",", "C", "L", "E", "A", "R">>
      [] t = "CalibrationState"            -> <<"C", "A", "L", ",", "?">>
      [] t = "Export"                      -> <<"E", "X", "P", "O", "R", "T">>
      [] t = "ExportInfo"                  -> <<"E", "X", "P", "O", "R", "T", ",", "?">>
      [] t = "Import"                      -> <<"I", "M", "P", "O", "R", "T", ",">>
      [] t = "Factory"                     -> <<"F", "A", "C", "T", "O", "R", "Y">>
      [] t = "Find"                        -> <<"F">>
      [] t = "DeviceAddress"               -> <<"I", "2", "C", ",">>
      [] t = "DeviceInformation"           -> <<"I">>
      [] t = "LedOn"                       -> <<"L", ",", "1">>
      [] t = "LedOff"                      -> <<"L", ",", "0">>
      [] t = "LedState"                    -> <<"L", ",", "?">>
      [] t = "ProtocolLockEnable"          -> <<"P", "L", "O", "C", "K", ",", "1">>
      [] t = "ProtocolLockDisable"         -> <<"P", "L", "O", "C", "K", ",", "0">>
      [] t = "ProtocolLockState"           -> <<"P", "L", "O", "C", "K", ",", "?">>
      [] t = "Reading"                     -> <<"R">>
      [] t = "Slope"                       -> <<"S", "L", "O", "P", "E", ",", "?">>
      [] t = "Status"                      -> <<"S", "T", "A", "T", "U", "S">>
      [] t = "Sleep"                       -> <<"S", "L", "E", "E", "P">>
      [] t = "TemperatureCompensation"     -> <<"T", ",">>
      [] t = "CompensatedTemperatureValue" -> <<"T", ",", "?">>

get_command_string(c) ==
    CASE c.t = "Baud"                        -> Stem(c.t) \o IntText(c.n)
      [] c.t = "CalibrationMid"              -> Stem(c.t) \o FmtFixed(c.v, 2)
      [] c.t = "CalibrationLow"              -> Stem(c.t) \o FmtFixed(c.v, 2)
      [] c.t = "CalibrationHigh"             -> Stem(c.t) \o FmtFixed(c.v, 2)
      [] c.t = "CalibrationClear"            -> Stem(c.t)
      [] c.t = "CalibrationState"            -> Stem(c.t)
      [] c.t = "Export"                      -> Stem(c.t)
      [] c.t = "ExportInfo"                  -> Stem(c.t)
      [] c.t = "Import"                      -> Stem(c.t) \o c.s
      [] c.t = "Factory"                     -> Stem(c.t)
      [] c.t = "Find"                        -> Stem(c.t)
      [] c.t = "DeviceAddress"               -> Stem(c.t) \o IntText(c.n)
      [] c.t = "DeviceInformation"           -> Stem(c.t)
      [] c.t = "LedOn"                       -> Stem(c.t)
      [] c.t = "LedOff"                      -> Stem(c.t)
      [] c.t = "LedState"                    -> Stem(c.t)
      [] c.t = "ProtocolLockEnable"          -> Stem(c.t)
      [] c.t = "ProtocolLockDisable"         -> Stem(c.t)
      [] c.t = "ProtocolLockState"           -> Stem(c.t)
      [] c.t = "Reading"                     -> Stem(c.t)
      [] c.t = "Slope"                       -> Stem(c.t)
      [] c.t = "Status"                      -> Stem(c.t)
      [] c.t = "Sleep"                       -> Stem(c.t)
      [] c.t = "TemperatureCompensation"     -> Stem(c.t) \o FmtFixed(c.v, 3)
      [] c.t = "CompensatedTemperatureValue" -> Stem(c.t)

\* one delay for every command
get_delay_uniform(c) == 300

\* no delay for any command
get_delay_zero(c) == 0

get_delay(c) ==
    CASE c.t = "Baud"                        -> 0
      [] c.t = "CalibrationMid"              -> 900
      [] c.t = "CalibrationLow"              -> 900
      [] c.t = "CalibrationHigh"             -> 900
      [] c.t = "CalibrationClear"            -> 300
      [] c.t = "CalibrationState"            -> 300
      [] c.t = "Export"                      -> 300
      [] c.t = "ExportInfo"                  -> 300
      [] c.t = "Import"                      -> 300
      [] c.t = "Factory"                     -> 0
      [] c.t = "Find"                        -> 300
      [] c.t = "DeviceAddress"               -> 300
      [] c.t = "DeviceInformation"           -> 300
      [] c.t = "LedOn"                       -> 300
      [] c.t = "LedOff"                      -> 300
      [] c.t = "LedState"                    -> 300
      [] c.t = "ProtocolLockEnable"          -> 300
      [] c.t = "ProtocolLockDisable"         -> 300
      [] c.t = "ProtocolLockState"           -> 300
      [] c.t = "Reading"                     -> 900
      [] c.t = "Slope"                       -> 300
      [] c.t = "Status"                      -> 300
      [] c.t = "Sleep"                       -> 0
      [] c.t = "TemperatureCompensation"     -> 300
      [] c.t = "CompensatedTemperatureValue" -> 300

\* the Response type of the command: None, Ack, or the response.rs type
\* whose parse reads the answer
ResponseType(c) ==
    CASE c.t = "Baud"                        -> "None"
      [] c.t = "CalibrationMid"              -> "Ack"
      [] c.t = "CalibrationLow"              -> "Ack"
      [] c.t = "CalibrationHigh"             -> "Ack"
      [] c.t = "CalibrationClear"            -> "Ack"
      [] c.t = "CalibrationState"            -> "CalibrationStatus"
      [] c.t = "Export"                      -> "Exported"
      [] c.t = "ExportInfo"                  -> "ExportedInfo"
      [] c.t = "Import"                      -> "Ack"
      [] c.t = "Factory"                     -> "None"
      [] c.t = "Find"                        -> "None"
      [] c.t = "DeviceAddress"               -> "None"
      [] c.t = "DeviceInformation"           -> "DeviceInfo"
      [] c.t = "LedOn"                       -> "Ack"
      [] c.t = "LedOff"                      -> "Ack"
      [] c.t = "LedState"                    -> "LedStatus"
      [] c.t = "ProtocolLockEnable"          -> "Ack"
      [] c.t = "ProtocolLockDisable"         -> "Ack"
      [] c.t = "ProtocolLockState"           -> "ProtocolLockStatus"
      [] c.t = "Reading"                     -> "SensorReading"
      [] c.t = "Slope"                       -> "ProbeSlope"
      [] c.t = "Status"                      -> "DeviceStatus"
      [] c.t = "Sleep"                       -> "None"
      [] c.t = "TemperatureCompensation"     -> "Ack"
      [] c.t = "CompensatedTemperatureValue" -> "CompensationValue"

-----------------------------------------------------------------------------
(* command.rs: impl FromStr.                                               *)

\* the calibration string of Import, exclusive upper bound of its length
ImportLenEnd == 13

\* the same with starts_with in the place of the match on the whole text
UnitFromStr_prefix(t, s) ==
    LET supper == ToUpper(s)
    IN  IF StartsWith(supper, Stem(t)) THEN Ok(Cmd0(t)) ELSE Err("CommandParse")

\* FromStr of a command without parameter: the upper-cased text is the wire
\* string
UnitFromStr(t, s) ==
    LET supper == ToUpper(s)
    IN  IF supper = Stem(t) THEN Ok(Cmd0(t)) ELSE Err("CommandParse")

Baud_from_str(s) ==
    LET supper == ToUpper(s)
    IN  IF StartsWith(supper, Stem("Baud"))
        THEN LET split == Split(Rest(supper, 5))
                 known == {r \in BpsRates : IntText(r) = split[1]}
             IN  IF known = {} THEN Err("CommandParse")
                 ELSE IF HasNext(split, 2) THEN Err("CommandParse")
                 ELSE Ok(CmdN("Baud", CHOOSE r \in known : TRUE))
        ELSE Err("CommandParse")

\* the same without the second split.next(): what follows the first field
\* is dropped
F64FromStrCommand_truncating(t, s) ==
    LET supper == ToUpper(s)
    IN  IF StartsWith(supper, Stem(t))
        THEN LET value == F64FromStr(Split(Rest(supper, Len(Stem(t))))[1])
             IN  IF ~value.ok THEN Err("CommandParse")
                 ELSE Ok(CmdV(t, value.val))
        ELSE Err("CommandParse")

\* FromStr of CalibrationMid, CalibrationLow, CalibrationHigh and
\* TemperatureCompensation: the same code with another prefix
F64FromStrCommand(t, s) ==
    LET supper == ToUpper(s)
    IN  IF StartsWith(supper, Stem(t))
        THEN LET split == Split(Rest(supper, Len(Stem(t))))
                 value == F64FromStr(split[1])
             IN  IF ~value.ok THEN Err("CommandParse")
                 ELSE IF HasNext(split, 2) THEN Err("CommandParse")
                 ELSE Ok(CmdV(t, value.val))
        ELSE Err("CommandParse")

CalibrationMid_from_str(s) == F64FromStrCommand("CalibrationMid", s)
CalibrationLow_from_str(s) == F64FromStrCommand("CalibrationLow", s)
CalibrationHigh_from_str(s) == F64FromStrCommand("CalibrationHigh", s)
TemperatureCompensation_from_str(s) ==
    F64FromStrCommand("TemperatureCompensation", s)

\* Import::from_str without the guard on n.len()
Import_from_str_unchecked(s) ==
    LET supper == ToUpper(s)
    IN  IF StartsWith(supper, Stem("Import"))
        THEN LET split == Split(Rest(supper, 7))
             IN  IF HasNext(split, 2) THEN Err("CommandParse")
                 ELSE Ok(CmdS("Import", split[1]))
        ELSE Err("CommandParse")

\* Import::from_str with the guard on the number of characters of n
Import_from_str_chars(s) ==
    LET supper == ToUpper(s)
    IN  IF StartsWith(supper, Stem("Import"))
        THEN LET split == Split(Rest(supper, 7))
                 n == split[1]
             IN  IF ~(Len(n) > 0 /\ Len(n) < ImportLenEnd)
                 THEN Err("CommandParse")
                 ELSE IF HasNext(split, 2) THEN Err("CommandParse")
                 ELSE Ok(CmdS("Import", n))
        ELSE Err("CommandParse")

\* impl FromStr for Import
Import_from_str(s) ==
    LET supper == ToUpper(s)
    IN  IF StartsWith(supper, Stem("Import"))
        THEN LET split == Split(Rest(supper, 7))
                 n == split[1]
             IN  IF ~(ByteLen(n) > 0 /\ ByteLen(n) < ImportLenEnd)
                 THEN Err("CommandParse")
                 ELSE IF HasNext(split, 2) THEN Err("CommandParse")
                 ELSE Ok(CmdS("Import", n))
        ELSE Err("CommandParse")

\* u8::MAX
U8Max == 255

\* DeviceAddress::from_str with parse::<u8> in the place of parse::<u16>
DeviceAddress_from_str_u8(s) ==
    LET supper == ToUpper(s)
    IN  IF StartsWith(supper, Stem("DeviceAddress"))
        THEN LET split == Split(Rest(supper, 4))
                 value == U16FromStr(split[1])
             IN  IF ~value.ok THEN Err("CommandParse")
                 ELSE IF value.val > U8Max THEN Err("CommandParse")
                 ELSE IF HasNext(split, 2) THEN Err("CommandParse")
                 ELSE Ok(CmdN("DeviceAddress", value.val))
        ELSE Err("CommandParse")

DeviceAddress_from_str(s) ==
    LET supper == ToUpper(s)
    IN  IF StartsWith(supper, Stem("DeviceAddress"))
        THEN LET split == Split(Rest(supper, 4))
                 value == U16FromStr(split[1])
             IN  IF ~value.ok THEN Err("CommandParse")
                 ELSE IF HasNext(split, 2) THEN Err("CommandParse")
                 ELSE Ok(CmdN("DeviceAddress", value.val))
        ELSE Err("CommandParse")

\* <T as FromStr>::from_str
from_str(t, s) ==
    CASE t = "Baud"                        -> Baud_from_str(s)
      [] t = "CalibrationMid"              -> CalibrationMid_from_str(s)
      [] t = "CalibrationLow"              -> CalibrationLow_from_str(s)
      [] t = "CalibrationHigh"             -> CalibrationHigh_from_str(s)
      [] t = "CalibrationClear"            -> UnitFromStr(t, s)
      [] t = "CalibrationState"            -> UnitFromStr(t, s)
      [] t = "Export"                      -> UnitFromStr(t, s)
      [] t = "ExportInfo"                  -> UnitFromStr(t, s)
      [] t = "Import"                      -> Import_from_str(s)
      [] t = "Factory"                     -> UnitFromStr(t, s)
      [] t = "Find"                        -> UnitFromStr(t, s)
      [] t = "DeviceAddress"               -> DeviceAddress_from_str(s)
      [] t = "DeviceInformation"           -> UnitFromStr(t, s)
      [] t = "LedOn"                       -> UnitFromStr(t, s)
      [] t = "LedOff"                      -> UnitFromStr(t, s)
      [] t = "LedState"                    -> UnitFromStr(t, s)
      [] t = "ProtocolLockEnable"          -> UnitFromStr(t, s)
      [] t = "ProtocolLockDisable"         -> UnitFromStr(t, s)
      [] t = "ProtocolLockState"           -> UnitFromStr(t, s)
      [] t = "Reading"                     -> UnitFromStr(t, s)
      [] t = "Slope"                       -> UnitFromStr(t, s)
      [] t = "Status"                      -> UnitFromStr(t, s)
      [] t = "Sleep"                       -> UnitFromStr(t, s)
      [] t = "TemperatureCompensation"     -> TemperatureCompensation_from_str(s)
      [] t = "CompensatedTemperatureValue" -> UnitFromStr(t, s)

-----------------------------------------------------------------------------
(* lib.rs: PhCommand::build.                                               *)

\* the byte 0 that ends every command string of build
NUL == "NUL"

None == {}
Some(x) == {x}

\* CommandOptions after set_command, set_delay, set_response and finish
Options(command, d, response) ==
    [command |-> command, delay |-> d, response |-> response]

\* CommandOptions::default()
DefaultOptions == Options(<<>>, None, None)

build(c) ==
    CASE c.t = "Baud" ->
         Options(<<"B", "a", "u", "d", ",">> \o IntText(c.n) \o <<NUL>>,
                 None, None)
      [] c.t = "CalibrationMid" ->
         Options(<<"C", "a", "l", ",", "m", "i", "d", ",">> \o FmtFixed(c.v, 2) \o <<NUL>>,
                 Some(900), Some("Ack"))
      [] c.t = "CalibrationLow" ->
         Options(<<"C", "a", "l", ",", "l", "o", "w", ",">> \o FmtFixed(c.v, 2) \o <<NUL>>,
                 Some(900), Some("Ack"))
      [] c.t = "CalibrationHigh" ->
         Options(<<"C", "a", "l", ",", "h", "i", "g", "h", ",">> \o FmtFixed(c.v, 2) \o <<NUL>>,
                 Some(900), Some("Ack"))
      [] c.t = "CalibrationClear" ->
         Options(<<"C", "a", "l", ",", "c", "l", "e", "a", "r">> \o <<NUL>>,
                 Some(300), Some("Ack"))
      [] c.t = "CalibrationState" ->
         Options(<<"C", "a", "l", ",", "?">> \o <<NUL>>,
                 Some(300), Some("CalibrationState"))
      [] c.t = "Export" ->
         Options(<<"E", "x", "p", "o", "r", "t">> \o <<NUL>>,
                 Some(300), Some("Export"))
      [] c.t = "ExportInfo" ->
         Options(<<"E", "x", "p", "o", "r", "t", ",", "?">> \o <<NUL>>,
                 Some(300), Some("ExportInfo"))
      [] c.t = "Import" ->
         Options(<<"I", "m", "p", "o", "r", "t", ",">> \o c.s \o <<NUL>>,
                 Some(300), None)
      [] c.t = "Factory" ->
         Options(<<"F", "a", "c", "t", "o", "r", "y">> \o <<NUL>>,
                 None, None)
      [] c.t = "Find" ->
         Options(<<"F">> \o <<NUL>>,
                 Some(300), Some("Ack"))
      [] c.t = "DeviceInformation" ->
         Options(<<"I">> \o <<NUL>>,
                 Some(300), Some("DeviceInformation"))
      [] c.t = "DeviceAddress" ->
         Options(<<"I", "2", "C", ",">> \o IntText(c.n) \o <<NUL>>,
                 Some(300), None)
      [] c.t = "LedOn" ->
         Options(<<"L", ",", "1">> \o <<NUL>>,
                 Some(300), Some("Ack"))
      [] c.t = "LedOff" ->
         Options(<<"L", ",", "0">> \o <<NUL>>,
                 Some(300), Some("Ack"))
      [] c.t = "LedState" ->
         Options(<<"L", ",", "?">> \o <<NUL>>,
                 Some(300), Some("LedState"))
      [] c.t = "ProtocolLockEnable" ->
         Options(<<"P", "l", "o", "c", "k", ",", "1">> \o <<NUL>>,
                 Some(300), Some("Ack"))
      [] c.t = "ProtocolLockDisable" ->
         Options(<<"P", "l", "o", "c", "k", ",", "0">> \o <<NUL>>,
                 Some(300), Some("Ack"))
      [] c.t = "ProtocolLockState" ->
         Options(<<"P", "l", "o", "c", "k", ",", "?">> \o <<NUL>>,
                 Some(300), Some("ProtocolLockState"))
      [] c.t = "Reading" ->
         Options(<<"R">> \o <<NUL>>,
                 Some(900), Some("Reading"))
      [] c.t = "Sleep" ->
         Options(<<"S", "l", "e", "e", "p">> \o <<NUL>>,
                 None, None)
      [] c.t = "Slope" ->
         Options(<<"S", "l", "o", "p", "e", ",", "?">> \o <<NUL>>,
                 Some(300), Some("Slope"))
      [] c.t = "Status" ->
         Options(<<"S", "t", "a", "t", "u", "s">> \o <<NUL>>,
                 Some(300), Some("Status"))
      [] c.t = "TemperatureCompensation" ->
         Options(<<"T", ",">> \o FmtDisplay(c.v) \o <<NUL>>,
                 Some(300), Some("Ack"))
      [] c.t = "TemperatureCompensationValue" ->
         Options(<<"T", ",", "?">> \o <<NUL>>,
                 Some(300), Some("CompensationValue"))

-----------------------------------------------------------------------------
(* The texts given to from_str and the values the encoders are called on.  *)

\* the first letter kept, the others in lower case ("Cal,mid,")
CommandCase(s) ==
    [i \in 1..Len(s) |-> IF i = 1 THEN s[i] ELSE LowerChar(s[i])]

StemVariants(p) == {p, ToLower(p), CommandCase(p)}

CmdAlphabet == {",", "1", "0", ".", "-", "?", "a", KelvinSign}

CmdExtraTails ==
    {
      <<"3", "0", "0">>, <<"1", "2", "0", "0">>, <<"2", "4", "0", "0">>,
      <<"9", "6", "0", "0">>, <<"1", "9", "2", "0", "0">>,
      <<"3", "8", "4", "0", "0">>, <<"5", "7", "6", "0", "0">>,
      <<"1", "1", "5", "2", "0", "0">>, <<"3", "0", "0", "0">>,
      <<"7", ".", "0", "0">>, <<"7", ".", "0", "0", "5">>,
      <<"1", "2", "1", ".", "4", "3">>, <<"-", "1", "2", "1", ".", "4", "3">>,
      <<"1", "a", "2", "1", ".", "4", "3">>,
      <<"4", "1", "2", "1", ".", "4", "3">>, <<"1", "9", ".", "5", "0", "0">>,
      <<"1", "0", ".", "5">>, <<"1", "9", ".", "5">>, <<"i", "n", "f">>,
      <<"N", "a", "N">>, <<"n", "a", "n">>, <<"+", "1">>, <<"$">>,
      <<"a", "b", "c", "d", "e", "f">>, <<"A", "B", "C", "D", "E", "F">>,
      <<"8", "8">>, <<"1", "2", "3">>, <<"6", "5", "5", "3", "5">>,
      <<"6", "5", "5", "3", "6">>, <<"0", "0", "7">>, <<"3", "0", "0", ",">>,
      <<"7", ".", "0", "0", ",">>, <<"7", ".", "0", "0", ",", "1">>,
      <<"a", "b", "c", ",", "d", "e", "f">>, <<"8", "8", ",", "1">>,
      <<KelvinSign, KelvinSign, KelvinSign, KelvinSign>>,
      <<KelvinSign, KelvinSign, KelvinSign, KelvinSign, KelvinSign>> }
      \cup {Rep("A", n) : n \in (ImportLenEnd - 1)..(ImportLenEnd + 2)}

CmdTails == Words(CmdAlphabet, MaxTail) \cup CmdExtraTails

\* the wire strings of the other commands, alone and with a parameter
OtherForms == {Stem(u) \o x : u \in CommandTypes, x \in {<<>>, <<"3","0","0">>}}

InputsFor(t) ==
    {v \o x : v \in StemVariants(Stem(t)), x \in CmdTails} \cup OtherForms

F64Values ==
    {Fin(n, 3) : n \in (-MaxMilli)..MaxMilli}
      \cup { Fin(7, 0), Fin(4, 0), Fin(10056, 3), Fin(195, 1), Fin(12143, 2),
             Fin(-12143, 2), Fin(412143, 2), Fin(1775, 2), Fin(5, 4),
             Fin(-5, 4), Fin(195005, 4), Fin(99995, 4),
             Infinity(1), Infinity(-1), NaN }

ImportAlphabet == {"A", "a", "1", ",", KelvinSign}

ImportStrings ==
    Words(ImportAlphabet, MaxImport)
      \cup {Rep("A", n) : n \in 0..(ImportLenEnd + 2)}
      \cup {Rep(KelvinSign, n) : n \in 3..5}
      \cup { <<"a","b","c","d","e","f">>, <<"A","B","C","D","E","F">>,
             <<"A","B","C","D","E","F","G","H","I","J","K","L","M","N","O">> }

Addresses == 0..MaxAddr \cup {88, 123, 255, 256, 1000, 65535}

\* the values of the command types of command.rs
CommandValues ==
    {Cmd0(t) : t \in CommandTypes \ ParamTypes}
      \cup {CmdN("Baud", r) : r \in BpsRates}
      \cup {CmdV(t, v) : t \in F64Types, v \in F64Values}
      \cup {CmdS("Import", s) : s \in ImportStrings}
      \cup {CmdN("DeviceAddress", n) : n \in Addresses}

\* the values of PhCommand: its DeviceAddress holds a u8 and its query of the
\* temperature compensation is named TemperatureCompensationValue
PhCommandValues ==
    {c \in CommandValues :
        /\ c.t # "CompensatedTemperatureValue"
        /\ c.t = "DeviceAddress" => c.n <= U8Max}
      \cup {Cmd0("TemperatureCompensationValue")}

-----------------------------------------------------------------------------
(* lib.rs: CommandOptions::run, statement by statement.  The device decides *)
(* whether a write or a read succeeds and what a read puts in the buffer.   *)

\* the thread::sleep before the second dev.write and the second dev.read
RetryBackoff == 300

\* the byte values the device answers with: the four status codes, 0, the
\* letter A, and A with the eighth bit set
Bytes == {0, 1, 2, 65, 193, 254, 255}

\* [0u8; MAX_RESPONSE_LENGTH]
ZeroBuffer == [i \in 1..BufLen |-> 0]

Event(e, ok, ms, msg, txt, codes) ==
    [e |-> e, ok |-> ok, ms |-> ms, msg |-> msg, txt |-> txt, codes |-> codes]

\* the same write without the last byte of the command
Wrote_trimmed(ok) ==
    Event("write", ok, 0, "", SubSeq(opts.command, 1, Len(opts.command) - 1), <<>>)

\* dev.write(self.command.as_bytes())
Wrote(ok) == Event("write", ok, 0, "", opts.command, <<>>)
\* dev.read(&mut data_buffer)
ReadInto(ok) == Event("read", ok, 0, "", <<>>, <<>>)
\* thread::sleep(Duration::from_millis(ms))
Slept(ms) == Event("sleep", TRUE, ms, "", <<>>, <<>>)
\* println!
Printed(msg, txt, codes) == Event("print", TRUE, 0, msg, txt, codes)

\* data_buffer.into_iter().position(|&x| x == 0), 0 standing for None; the
\* index counts from 1 here and from 0 in the code
ZeroPosition(buffer) ==
    LET zeros == {i \in 1..Len(buffer) : buffer[i] = 0}
    IN  IF zeros = {} THEN 0
        ELSE CHOOSE i \in zeros : \A j \in zeros : i <= j

\* c & !0x80 of a u8
MaskHighBit(c) == c % 128

\* String::from_utf8 on bytes of Bytes: the ones below 128 are characters and
\* no sequence with 193, 254 or 255 is UTF-8
IsUtf8(bytes) == \A i \in 1..Len(bytes) : bytes[i] < 128

\* the data of a response of status 1: the code points of the text, or the
\* error of from_utf8
DecodeData(buffer) ==
    LET eol == ZeroPosition(buffer)
    IN  IF eol # 0
        THEN Ok([i \in 1..(eol - 2) |-> MaskHighBit(buffer[i + 1])])
        ELSE IF IsUtf8(Tail(buffer)) THEN Ok(Tail(buffer))
        ELSE Err("Data is not readable")

\* a match that has the arm 254 alone
StatusLine_pending(buffer) == Printed("Pending", <<>>, <<>>)

\* the println! of the arm of match data_buffer[0]
StatusLine(buffer) ==
    CASE buffer[1] = 255 -> Printed("No data expected.", <<>>, <<>>)
      [] buffer[1] = 254 -> Printed("Pending", <<>>, <<>>)
      [] buffer[1] = 2   -> Printed("Error", <<>>, <<>>)
      [] buffer[1] = 1   -> Printed("RESPONSE: ", <<>>, DecodeData(buffer).val)
      [] OTHER           -> Printed("NO RESPONSE", <<>>, <<>>)

-----------------------------------------------------------------------------
(* The three specifications share the variables of the module: the ones of *)
(* the parts that a specification does not exercise stay idle.             *)

NotCalled == Err("NotCalled")

ResponseIdle ==
    /\ parser = "none"
    /\ payload = <<>>
    /\ parsed = NotCalled

CommandIdle ==
    /\ cop = "none"
    /\ ctype = "none"
    /\ text = <<>>
    /\ cmd = Cmd0("none")
    /\ tieUp = FALSE
    /\ result = NotCalled
    /\ wire = <<>>
    /\ delay = 0
    /\ options = DefaultOptions
    /\ called = FALSE

RunIdle ==
    /\ pc = "idle"
    /\ opts = DefaultOptions
    /\ data_buffer = ZeroBuffer
    /\ events = <<>>
    /\ ret = NotCalled

\* no call on the CommandOptions before run, and no earlier run
NoCall == [op |-> "none", before |-> DefaultOptions]

SessionIdle ==
    /\ last = NoCall
    /\ copy = DefaultOptions
    /\ history = <<>>

LoopIdle ==
    /\ lpc = "idle"
    /\ sent = <<>>

-----------------------------------------------------------------------------
(* SpecResponse: a caller holds a payload and calls one response parser.   *)

PayloadsFor(name) ==
    CASE name = "CalibrationStatus"  -> Prefixed(PrefixCal, CalExtra)
      [] name = "Exported"           -> ExportPayloads
      [] name = "ExportedInfo"       -> Prefixed(PrefixExport, ExportInfoExtra)
      [] name = "DeviceInfo"         -> Prefixed(PrefixInfo, InfoExtra)
      [] name = "LedStatus"          -> Prefixed(PrefixLed, LedExtra)
      [] name = "ProtocolLockStatus" -> Prefixed(PrefixPlock, LedExtra)
      [] name = "SensorReading"      -> ReadingPayloads
      [] name = "ProbeSlope"         -> Prefixed(PrefixSlope, SlopeExtra)
      [] name = "DeviceStatus"       -> Prefixed(PrefixStatus, StatusExtra)
      [] name = "CompensationValue"  -> Prefixed(PrefixT, CompensationExtra)

ResponseParsers ==
    { "CalibrationStatus", "Exported", "ExportedInfo", "DeviceInfo",
      "LedStatus", "ProtocolLockStatus", "SensorReading", "ProbeSlope",
      "DeviceStatus", "CompensationValue" }

InitResponse ==
    /\ parser \in ResponseParsers
    /\ payload \in PayloadsFor(parser)
    /\ parsed = NotCalled
    /\ CommandIdle
    /\ RunIdle
    /\ SessionIdle
    /\ LoopIdle

CallCalibrationStatus ==
    /\ parser = "CalibrationStatus"
    /\ parsed = NotCalled
    /\ parsed' = CalibrationStatus_parse(payload)
    /\ UNCHANGED <<parser, payload>>
    /\ UNCHANGED <<cmdVars, runVars, sessVars, loopVars>>

CallExported ==
    /\ parser = "Exported"
    /\ parsed = NotCalled
    /\ parsed' = Exported_parse(payload)
    /\ UNCHANGED <<parser, payload>>
    /\ UNCHANGED <<cmdVars, runVars, sessVars, loopVars>>

CallExportedInfo ==
    /\ parser = "ExportedInfo"
    /\ parsed = NotCalled
    /\ parsed' = ExportedInfo_parse(payload)
    /\ UNCHANGED <<parser, payload>>
    /\ UNCHANGED <<cmdVars, runVars, sessVars, loopVars>>

CallDeviceInfo ==
    /\ parser = "DeviceInfo"
    /\ parsed = NotCalled
    /\ parsed' = DeviceInfo_parse(payload)
    /\ UNCHANGED <<parser, payload>>
    /\ UNCHANGED <<cmdVars, runVars, sessVars, loopVars>>

CallLedStatus ==
    /\ parser = "LedStatus"
    /\ parsed = NotCalled
    /\ parsed' = LedStatus_parse(payload)
    /\ UNCHANGED <<parser, payload>>
    /\ UNCHANGED <<cmdVars, runVars, sessVars, loopVars>>

CallProtocolLockStatus ==
    /\ parser = "ProtocolLockStatus"
    /\ parsed = NotCalled
    /\ parsed' = ProtocolLockStatus_parse(payload)
    /\ UNCHANGED <<parser, payload>>
    /\ UNCHANGED <<cmdVars, runVars, sessVars, loopVars>>

CallSensorReading ==
    /\ parser = "SensorReading"
    /\ parsed = NotCalled
    /\ parsed' = SensorReading_parse(payload)
    /\ UNCHANGED <<parser, payload>>
    /\ UNCHANGED <<cmdVars, runVars, sessVars, loopVars>>

CallProbeSlope ==
    /\ parser = "ProbeSlope"
    /\ parsed = NotCalled
    /\ parsed' = ProbeSlope_parse(payload)
    /\ UNCHANGED <<parser, payload>>
    /\ UNCHANGED <<cmdVars, runVars, sessVars, loopVars>>

CallDeviceStatus ==
    /\ parser = "DeviceStatus"
    /\ parsed = NotCalled
    /\ parsed' = DeviceStatus_parse(payload)
    /\ UNCHANGED <<parser, payload>>
    /\ UNCHANGED <<cmdVars, runVars, sessVars, loopVars>>

CallCompensationValue ==
    /\ parser = "CompensationValue"
    /\ parsed = NotCalled
    /\ parsed' = CompensationValue_parse(payload)
    /\ UNCHANGED <<parser, payload>>
    /\ UNCHANGED <<cmdVars, runVars, sessVars, loopVars>>

NextResponse ==
    \/ CallCalibrationStatus
    \/ CallExported
    \/ CallExportedInfo
    \/ CallDeviceInfo
    \/ CallLedStatus
    \/ CallProtocolLockStatus
    \/ CallSensorReading
    \/ CallProbeSlope
    \/ CallDeviceStatus
    \/ CallCompensationValue

SpecResponse == InitResponse /\ [][NextResponse]_vars

-----------------------------------------------------------------------------
(* The commands: one call of one operation on one input.                   *)

InitCommand ==
    /\ cop \in {"new", "from_str", "get_command_string", "get_delay", "build"}
    /\ \/ /\ cop = "from_str"
          /\ ctype \in CommandTypes
          /\ text \in InputsFor(ctype)
          /\ cmd = Cmd0(ctype)
          /\ tieUp = FALSE
       \/ /\ cop \in {"new", "get_delay"}
          /\ cmd \in CommandValues
          /\ ctype = cmd.t
          /\ text = <<>>
          /\ tieUp = FALSE
       \/ /\ cop = "get_command_string"
          /\ cmd \in CommandValues
          /\ ctype = cmd.t
          /\ text = <<>>
          /\ tieUp \in BOOLEAN
       \/ /\ cop = "build"
          /\ cmd \in PhCommandValues
          /\ ctype = cmd.t
          /\ text = <<>>
          /\ tieUp \in BOOLEAN
    /\ result = NotCalled
    /\ wire = <<>>
    /\ delay = 0
    /\ options = DefaultOptions
    /\ called = FALSE
    /\ ResponseIdle
    /\ RunIdle
    /\ SessionIdle
    /\ LoopIdle

\* T(value): the tuple struct is built from its field, nothing is checked
Construct ==
    /\ cop = "new"
    /\ ~called
    /\ result' = Ok(cmd)
    /\ called' = TRUE
    /\ UNCHANGED <<cop, ctype, text, cmd, tieUp, wire, delay, options>>
    /\ UNCHANGED <<respVars, runVars, sessVars, loopVars>>

CallFromStr ==
    /\ cop = "from_str"
    /\ ~called
    /\ result' = from_str(ctype, text)
    /\ called' = TRUE
    /\ UNCHANGED <<cop, ctype, text, cmd, tieUp, wire, delay, options>>
    /\ UNCHANGED <<respVars, runVars, sessVars, loopVars>>

CallGetCommandString ==
    /\ cop = "get_command_string"
    /\ ~called
    /\ wire' = get_command_string(cmd)
    /\ called' = TRUE
    /\ UNCHANGED <<cop, ctype, text, cmd, tieUp, result, delay, options>>
    /\ UNCHANGED <<respVars, runVars, sessVars, loopVars>>

CallGetDelay ==
    /\ cop = "get_delay"
    /\ ~called
    /\ delay' = get_delay(cmd)
    /\ called' = TRUE
    /\ UNCHANGED <<cop, ctype, text, cmd, tieUp, result, wire, options>>
    /\ UNCHANGED <<respVars, runVars, sessVars, loopVars>>

CallBuild ==
    /\ cop = "build"
    /\ ~called
    /\ options' = build(cmd)
    /\ called' = TRUE
    /\ UNCHANGED <<cop, ctype, text, cmd, tieUp, result, wire, delay>>
    /\ UNCHANGED <<respVars, runVars, sessVars, loopVars>>

NextCommand ==
    \/ Construct
    \/ CallFromStr
    \/ CallGetCommandString
    \/ CallGetDelay
    \/ CallBuild

SpecCommand == InitCommand /\ [][NextCommand]_vars

-----------------------------------------------------------------------------
(* SpecRun: one call of CommandOptions::run on a device that may fail.     *)

\* the commands whose build is given to run: every variant of PhCommand, the
\* variants with a parameter with two of its values
RunCommands ==
    {Cmd0(t) : t \in (CommandTypes \ ParamTypes) \ {"CompensatedTemperatureValue"}}
      \cup { Cmd0("TemperatureCompensationValue"),
             CmdN("Baud", 300), CmdN("Baud", 115200),
             CmdV("CalibrationMid", Fin(7, 0)), CmdV("CalibrationMid", Fin(10056, 3)),
             CmdV("CalibrationLow", Fin(4, 0)), CmdV("CalibrationLow", Fin(-5, 3)),
             CmdV("CalibrationHigh", Fin(10, 0)), CmdV("CalibrationHigh", Fin(12143, 2)),
             CmdS("Import", <<"A">>), CmdS("Import", <<"a", "1">>),
             CmdN("DeviceAddress", 88), CmdN("DeviceAddress", 255),
             CmdV("TemperatureCompensation", Fin(195, 1)),
             CmdV("TemperatureCompensation", Fin(-5, 3)) }

\* the CommandOptions that run is called on: built from a command, or put
\* together with set_command and set_response alone
RunOptions ==
    {build(c) : c \in RunCommands}
      \cup {Options(<<"R", NUL>>, None, Some("Reading"))}

InitRun ==
    /\ ResponseIdle
    /\ CommandIdle
    /\ pc = "start"
    /\ opts \in RunOptions
    /\ data_buffer = ZeroBuffer
    /\ events = <<>>
    /\ ret = NotCalled
    /\ SessionIdle
    /\ LoopIdle

\* println!("COMMAND: {}", self.command)
PrintCommand ==
    /\ pc = "start"
    /\ events' = Append(events, Printed("COMMAND: ", opts.command, <<>>))
    /\ pc' = "write"
    /\ UNCHANGED <<opts, data_buffer, ret>>
    /\ UNCHANGED <<respVars, cmdVars, sessVars, loopVars>>

\* if let Err(_) = dev.write(..)
FirstWrite ==
    /\ pc = "write"
    /\ \E ok \in BOOLEAN :
          /\ events' = Append(events, Wrote(ok))
          /\ pc' = IF ok THEN "delay" ELSE "write_backoff"
    /\ UNCHANGED <<opts, data_buffer, ret>>
    /\ UNCHANGED <<respVars, cmdVars, sessVars, loopVars>>

\* the same with no sleep before the second dev.write
WriteBackoff_none ==
    /\ pc = "write_backoff"
    /\ pc' = "write_again"
    /\ UNCHANGED <<opts, data_buffer, events, ret>>
    /\ UNCHANGED <<respVars, cmdVars, sessVars, loopVars>>

\* thread::sleep(Duration::from_millis(300)) after the failed write
WriteBackoff ==
    /\ pc = "write_backoff"
    /\ events' = Append(events, Slept(RetryBackoff))
    /\ pc' = "write_again"
    /\ UNCHANGED <<opts, data_buffer, ret>>
    /\ UNCHANGED <<respVars, cmdVars, sessVars, loopVars>>

\* dev.write(..).chain_err(|| "Command could not be sent")?
SecondWrite ==
    /\ pc = "write_again"
    /\ \E ok \in BOOLEAN :
          /\ events' = Append(events, Wrote(ok))
          /\ pc' = IF ok THEN "delay" ELSE "done"
          /\ ret' = IF ok THEN ret ELSE Err("Command could not be sent")
    /\ UNCHANGED <<opts, data_buffer>>
    /\ UNCHANGED <<respVars, cmdVars, sessVars, loopVars>>

\* if let Some(delay) = self.delay { thread::sleep(..) }, then the test of
\* self.response
CommandDelay ==
    /\ pc = "delay"
    /\ events' = IF opts.delay = None THEN events
                 ELSE Append(events, Slept(CHOOSE d \in opts.delay : TRUE))
    /\ pc' = IF opts.response = None THEN "return" ELSE "read"
    /\ UNCHANGED <<opts, data_buffer, ret>>
    /\ UNCHANGED <<respVars, cmdVars, sessVars, loopVars>>

\* if let Err(_) = dev.read(&mut data_buffer)
FirstRead ==
    /\ pc = "read"
    /\ \/ /\ events' = Append(events, ReadInto(TRUE))
          /\ data_buffer' \in [1..BufLen -> Bytes]
          /\ pc' = "match"
       \/ /\ events' = Append(events, ReadInto(FALSE))
          /\ data_buffer' = data_buffer
          /\ pc' = "read_backoff"
    /\ UNCHANGED <<opts, ret>>
    /\ UNCHANGED <<respVars, cmdVars, sessVars, loopVars>>

\* thread::sleep(Duration::from_millis(300)) after the failed read
ReadBackoff ==
    /\ pc = "read_backoff"
    /\ events' = Append(events, Slept(RetryBackoff))
    /\ pc' = "read_again"
    /\ UNCHANGED <<opts, data_buffer, ret>>
    /\ UNCHANGED <<respVars, cmdVars, sessVars, loopVars>>

\* the same with the error of the second dev.read dropped: the buffer is
\* matched whatever the read did
SecondRead_inspecting ==
    /\ pc = "read_again"
    /\ \E ok \in BOOLEAN : events' = Append(events, ReadInto(ok))
    /\ data_buffer' \in [1..BufLen -> Bytes]
    /\ pc' = "match"
    /\ UNCHANGED <<opts, ret>>
    /\ UNCHANGED <<respVars, cmdVars, sessVars, loopVars>>

\* dev.read(&mut data_buffer).chain_err(|| "Error reading from device")?
SecondRead ==
    /\ pc = "read_again"
    /\ \/ /\ events' = Append(events, ReadInto(TRUE))
          /\ data_buffer' \in [1..BufLen -> Bytes]
          /\ pc' = "match"
          /\ ret' = ret
       \/ /\ events' = Append(events, ReadInto(FALSE))
          /\ data_buffer' = data_buffer
          /\ pc' = "done"
          /\ ret' = Err("Error reading from device")
    /\ UNCHANGED opts
    /\ UNCHANGED <<respVars, cmdVars, sessVars, loopVars>>

\* match data_buffer[0] { .. }
MatchStatus ==
    /\ pc = "match"
    /\ IF data_buffer[1] = 1 /\ ~DecodeData(data_buffer).ok
       THEN /\ ret' = DecodeData(data_buffer)
            /\ pc' = "done"
            /\ events' = events
       ELSE /\ events' = Append(events, StatusLine(data_buffer))
            /\ pc' = "return"
            /\ ret' = ret
    /\ UNCHANGED <<opts, data_buffer>>
    /\ UNCHANGED <<respVars, cmdVars, sessVars, loopVars>>

\* println!(); Ok(())
Return ==
    /\ pc = "return"
    /\ events' = Append(events, Printed("", <<>>, <<>>))
    /\ ret' = Ok("unit")
    /\ pc' = "done"
    /\ UNCHANGED <<opts, data_buffer>>
    /\ UNCHANGED <<respVars, cmdVars, sessVars, loopVars>>

NextRun ==
    \/ PrintCommand
    \/ FirstWrite
    \/ WriteBackoff
    \/ SecondWrite
    \/ CommandDelay
    \/ FirstRead
    \/ ReadBackoff
    \/ SecondRead
    \/ MatchStatus
    \/ Return

SpecRun == InitRun /\ [][NextRun]_vars

-----------------------------------------------------------------------------
(* SpecSession: a caller fills a CommandOptions with the methods of        *)
(* CommandBuilder, takes its copy with finish and runs it, once or more.   *)

\* self.command = command_str
set_command(o, command_str) == [o EXCEPT !.command = command_str]

\* the same with the response dropped
set_delay_clearing(o, d) == [o EXCEPT !.delay = Some(d), !.response = None]

\* self.delay = Some(delay)
set_delay(o, d) == [o EXCEPT !.delay = Some(d)]

\* self.response = Some(response)
set_response(o, response) == [o EXCEPT !.response = Some(response)]

\* self.clone()
finish(o) == o

\* the arguments that the caller gives to set_command, set_delay and
\* set_response
SessionCommands == {<<"R", NUL>>}
SessionDelays == {900}
SessionResponses == {"Reading"}

\* a call on the CommandOptions: the method and the value before the call
Call(op, before) == [op |-> op, before |-> before]

\* the events of a run on the bus: the writes, the sleeps and the reads
IsBus(x) == x.e # "print"

\* what is kept of a call of run that has returned
Transaction(log, r) == [bus |-> SelectSeq(log, IsBus), ok |-> r.ok]

InitSession ==
    /\ ResponseIdle
    /\ CommandIdle
    /\ LoopIdle
    /\ pc = "caller"
    /\ opts = DefaultOptions
    /\ data_buffer = ZeroBuffer
    /\ events = <<>>
    /\ ret = NotCalled
    /\ last = NoCall
    /\ copy = DefaultOptions
    /\ history = <<>>

SetCommand ==
    /\ pc = "caller"
    /\ \E command_str \in SessionCommands :
          opts' = set_command(opts, command_str)
    /\ last' = Call("set_command", opts)
    /\ UNCHANGED <<pc, data_buffer, events, ret, copy, history>>
    /\ UNCHANGED <<respVars, cmdVars, loopVars>>

SetDelay ==
    /\ pc = "caller"
    /\ \E d \in SessionDelays : opts' = set_delay(opts, d)
    /\ last' = Call("set_delay", opts)
    /\ UNCHANGED <<pc, data_buffer, events, ret, copy, history>>
    /\ UNCHANGED <<respVars, cmdVars, loopVars>>

SetResponse ==
    /\ pc = "caller"
    /\ \E response \in SessionResponses : opts' = set_response(opts, response)
    /\ last' = Call("set_response", opts)
    /\ UNCHANGED <<pc, data_buffer, events, ret, copy, history>>
    /\ UNCHANGED <<respVars, cmdVars, loopVars>>

Finish ==
    /\ pc = "caller"
    /\ copy' = finish(opts)
    /\ last' = Call("finish", opts)
    /\ UNCHANGED <<pc, opts, data_buffer, events, ret, history>>
    /\ UNCHANGED <<respVars, cmdVars, loopVars>>

\* the caller runs the CommandOptions that finish has returned
CallRun ==
    /\ pc = "caller"
    /\ last.op = "finish"
    /\ opts' = copy
    /\ last' = Call("run", copy)
    /\ pc' = "start"
    /\ UNCHANGED <<data_buffer, events, ret, copy, history>>
    /\ UNCHANGED <<respVars, cmdVars, loopVars>>

\* the same without waiting for run to return
CallAgain_overlapping ==
    /\ pc \notin {"caller", "start"}
    /\ Len(history) < MaxRuns - 1
    /\ history' = Append(history, Transaction(events, ret))
    /\ events' = <<>>
    /\ data_buffer' = ZeroBuffer
    /\ ret' = NotCalled
    /\ pc' = "start"
    /\ UNCHANGED <<opts, last, copy>>
    /\ UNCHANGED <<respVars, cmdVars, loopVars>>

\* run has returned and the caller calls it again on the same CommandOptions
CallAgain ==
    /\ pc = "done"
    /\ Len(history) < MaxRuns - 1
    /\ history' = Append(history, Transaction(events, ret))
    /\ events' = <<>>
    /\ data_buffer' = ZeroBuffer
    /\ ret' = NotCalled
    /\ pc' = "start"
    /\ UNCHANGED <<opts, last, copy>>
    /\ UNCHANGED <<respVars, cmdVars, loopVars>>

NextSession ==
    \/ SetCommand
    \/ SetDelay
    \/ SetResponse
    \/ Finish
    \/ CallRun
    \/ PrintCommand
    \/ FirstWrite
    \/ WriteBackoff
    \/ SecondWrite
    \/ CommandDelay
    \/ FirstRead
    \/ ReadBackoff
    \/ SecondRead
    \/ MatchStatus
    \/ Return
    \/ CallAgain

SpecSession == InitSession /\ [][NextSession]_vars

-----------------------------------------------------------------------------
(* SpecLoop: examples/read-loop.rs.  The device decides the outcome of     *)
(* every command that the loop runs.                                       *)

\* the payloads that the device answers a reading with
LoopPayloads ==
    { <<"7">>, <<"1", "4">>, <<"1", "4", ".", "0", "1">>, <<"-", "1">>,
      <<"7", ",">>, <<>> }

\* the errors of errors.rs that Command::run returns without parsing a
\* payload
LoopErrors ==
    {"I2CRead", "PendingResponse", "DeviceErrorResponse",
     "NoDataExpectedResponse"}

\* Reading.run(&mut dev): an error, or what SensorReading::parse makes of the
\* payload
ReadingOutcomes ==
    {Err(e) : e \in LoopErrors} \cup {SensorReading_parse(p) : p \in LoopPayloads}

\* Sleep.run(&mut dev): Sleep has no response
SleepOutcomes == {Ok("unit"), Err("I2CRead")}

\* a command that the loop has run, and what run returned
Sent(command, out) == [cmd |-> command, out |-> out]

InitLoop ==
    /\ ResponseIdle
    /\ CommandIdle
    /\ RunIdle
    /\ SessionIdle
    /\ lpc = "open"
    /\ sent = <<>>

\* LinuxI2CDevice::new(..).chain_err(|| "Could not open I2C device")?
OpenDevice ==
    /\ lpc = "open"
    /\ \E ok \in BOOLEAN : lpc' = IF ok THEN "reading" ELSE "exit"
    /\ UNCHANGED sent
    /\ UNCHANGED <<respVars, cmdVars, runVars, sessVars>>

\* the same with the error of Reading.run dropped
RunReading_ignoring ==
    /\ lpc = "reading"
    /\ Len(sent) < 2 * MaxLoops
    /\ \E out \in ReadingOutcomes : sent' = Append(sent, Sent("Reading", out))
    /\ lpc' = "print"
    /\ UNCHANGED <<respVars, cmdVars, runVars, sessVars>>

\* let ph_value = Reading.run(&mut dev)?;
RunReading ==
    /\ lpc = "reading"
    /\ Len(sent) < 2 * MaxLoops
    /\ \E out \in ReadingOutcomes :
          /\ sent' = Append(sent, Sent("Reading", out))
          /\ lpc' = IF out.ok THEN "print" ELSE "exit"
    /\ UNCHANGED <<respVars, cmdVars, runVars, sessVars>>

\* let _out = _print_response(ph_value)?; which returns Ok(())
PrintResponse ==
    /\ lpc = "print"
    /\ lpc' = "sleep"
    /\ UNCHANGED sent
    /\ UNCHANGED <<respVars, cmdVars, runVars, sessVars>>

\* let _sleep = Sleep.run(&mut dev)?;
RunSleep ==
    /\ lpc = "sleep"
    /\ \E out \in SleepOutcomes :
          /\ sent' = Append(sent, Sent("Sleep", out))
          /\ lpc' = IF out.ok THEN "wait" ELSE "exit"
    /\ UNCHANGED <<respVars, cmdVars, runVars, sessVars>>

\* thread::sleep(Duration::from_millis(9_100)), and the loop starts again
WaitNext ==
    /\ lpc = "wait"
    /\ lpc' = "reading"
    /\ UNCHANGED sent
    /\ UNCHANGED <<respVars, cmdVars, runVars, sessVars>>

\* main prints the error that run returned and calls ::std::process::exit(1)
MainExit ==
    /\ lpc = "exit"
    /\ lpc' = "exited"
    /\ UNCHANGED sent
    /\ UNCHANGED <<respVars, cmdVars, runVars, sessVars>>

NextLoop ==
    \/ OpenDevice
    \/ RunReading
    \/ PrintResponse
    \/ RunSleep
    \/ WaitNext
    \/ MainExit

SpecLoop == InitLoop /\ [][NextLoop]_vars

-----------------------------------------------------------------------------
(* The claims about the response parsers.                                 *)

Returned == parsed.err # "NotCalled"

\* C1: SensorReading::parse returns Ok(v) exactly when the payload parses as
\* a number v with 0.0 <= v <= 14.0, both bounds included; a payload that
\* parses to a value not in that range fails with InvalidReading, and a
\* payload that does not parse fails with ResponseParse.
C1_SensorReadingRange ==
    (parser = "SensorReading" /\ Returned) =>
        LET num == F64FromStr(payload)
            inRange == /\ num.ok
                       /\ num.val.k = "fin"
                       /\ 0 <= num.val.n
                       /\ num.val.n <= 14 * Pow10(num.val.d)
        IN  /\ parsed.ok <=> inRange
            /\ parsed.ok => parsed.val = num.val
            /\ (num.ok /\ ~inRange) => parsed.err = "InvalidReading"
            /\ ~num.ok => parsed.err = "ResponseParse"

\* the payload "14.0" has been parsed and accepted as the reading 14
C1_Witness ==
    /\ parser = "SensorReading"
    /\ payload = <<"1", "4", ".", "0">>
    /\ parsed.ok
    /\ parsed.val = Fin(14, 0)

NoTruncationParsers ==
    { "CalibrationStatus", "ExportedInfo", "DeviceInfo", "LedStatus",
      "ProtocolLockStatus", "ProbeSlope", "DeviceStatus", "CompensationValue" }

\* the payload is a payload its parser accepts, then a comma, then any text
ValidThenComma ==
    \E i \in 1..Len(payload) :
        /\ payload[i] = ","
        /\ ResponseParse(parser, SubSeq(payload, 1, i - 1)).ok

\* C2: for CalibrationStatus, ExportedInfo, DeviceInfo, LedStatus,
\* ProtocolLockStatus, ProbeSlope, DeviceStatus and CompensationValue, a valid
\* payload followed by one more comma, with or without text after it, is
\* rejected with ResponseParse: the value of the valid prefix is never returned.
C2_NoSilentTruncation ==
    (parser \in NoTruncationParsers /\ Returned /\ ValidThenComma) =>
        (~parsed.ok /\ parsed.err = "ResponseParse")

\* "?CAL,1," has been parsed: "?CAL,1" is valid and the comma makes it an error
C2_Witness ==
    /\ parser = "CalibrationStatus"
    /\ payload = PrefixCal \o <<"1", ",">>
    /\ ValidThenComma
    /\ parsed.err = "ResponseParse"

-----------------------------------------------------------------------------
(* The claims about the commands.                                          *)

Parsed == cop = "from_str" /\ called
Encoded == cop = "get_command_string" /\ called
Built == cop = "build" /\ called

\* two results of from_str are both errors or both the same command
SameResult(a, b) == a.ok = b.ok /\ (a.ok => CmdEq(a.val, b.val))

\* C3 as stated: no Import holds a calibration string of 0 or of 13 or more
\* characters, whether it was constructed directly, built as a PhCommand or
\* parsed, and no wire string is encoded from such a string.
C3_ImportAlwaysChecked ==
    /\ (cop = "new" /\ called /\ ctype = "Import" /\ result.ok) =>
           Len(result.val.s) \in 1..12
    /\ (Parsed /\ ctype = "Import" /\ result.ok) =>
           Len(result.val.s) \in 1..12
    /\ (Encoded /\ cmd.t = "Import" /\ wire # <<>>) => Len(cmd.s) \in 1..12
    /\ (Built /\ cmd.t = "Import" /\ options.command # <<>>) =>
           Len(cmd.s) \in 1..12

\* C3: Import::from_str never returns an Import whose calibration string is
\* empty or longer than 12 bytes, and rejects a text whose first field after
\* IMPORT, is such a string with CommandParse; direct construction of
\* command::Import and of PhCommand::Import checks nothing: the string is
\* taken and encoded as given, whatever its length.
C3_ImportParseChecked ==
    /\ (Parsed /\ ctype = "Import" /\ result.ok) =>
           ByteLen(result.val.s) \in 1..12
    /\ (Parsed /\ ctype = "Import" /\ StartsWith(ToUpper(text), Stem("Import"))
          /\ ByteLen(Split(Rest(ToUpper(text), 7))[1]) \notin 1..12) =>
           result.err = "CommandParse"
    /\ (cop = "new" /\ called /\ ctype = "Import") =>
           (result.ok /\ result.val.s = cmd.s)
    /\ (Encoded /\ cmd.t = "Import") => wire = Stem("Import") \o cmd.s
    /\ (Built /\ cmd.t = "Import") =>
           options.command = <<"I","m","p","o","r","t",",">> \o cmd.s \o <<NUL>>

\* IMPORT, with 13 letters has been parsed and rejected
C3_Witness ==
    /\ Parsed
    /\ ctype = "Import"
    /\ text = Stem("Import") \o Rep("A", 13)
    /\ result.err = "CommandParse"

\* the values for which the round trip is claimed
RoundTripClaimed(c) ==
    CASE c.t \in {"CalibrationMid", "CalibrationLow", "CalibrationHigh"} ->
             c.v.k = "fin" /\ c.v.d <= 2
      [] c.t = "TemperatureCompensation" -> c.v.k = "fin" /\ c.v.d <= 3
      [] c.t = "Import" -> Len(c.s) \in 1..12
      [] OTHER -> TRUE

\* C4 as stated: get_command_string(c).parse() == Ok(c) for every command
\* without parameter, every Baud, every DeviceAddress, every Import of 1 to 12
\* characters and every calibration or temperature value with at most 2
\* resp. 3 decimals.
C4_RoundTrip ==
    (Encoded /\ RoundTripClaimed(cmd)) =>
        SameResult(from_str(cmd.t, wire), Ok(cmd))

\* the calibration strings that from_str gives back as they are
ImportCanonical(str) ==
    /\ ByteLen(str) \in 1..12
    /\ \A i \in 1..Len(str) : str[i] # ","
    /\ ToUpper(str) = str

\* C4: get_command_string(c).parse() == Ok(c) for every command without
\* parameter, every Baud, every DeviceAddress, every calibration or
\* temperature value with at most 2 resp. 3 decimals, and every Import whose
\* string has 1 to 12 bytes, no comma and no lower-case letter.
C4_RoundTripCanonical ==
    (Encoded /\ RoundTripClaimed(cmd)
       /\ (cmd.t = "Import" => ImportCanonical(cmd.s))) =>
        SameResult(from_str(cmd.t, wire), Ok(cmd))

\* DeviceAddress(65535) has been encoded as I2C,65535, which parses back
C4_Witness ==
    /\ Encoded
    /\ cmd = CmdN("DeviceAddress", 65535)
    /\ wire = <<"I","2","C",",","6","5","5","3","5">>
    /\ from_str("DeviceAddress", wire).ok

\* the digits after the point of the number that ends the text, -1 if the
\* text has no point followed by digits only
DecimalsOf(w) ==
    LET dots == {i \in 1..Len(w) : w[i] = "."}
    IN  IF dots = {} THEN -1
        ELSE LET dot == CHOOSE i \in dots : \A j \in dots : j <= i
             IN  IF AllDigits(SubSeq(w, dot + 1, Len(w))) THEN Len(w) - dot
                 ELSE -1

CalTypes == {"CalibrationMid", "CalibrationLow", "CalibrationHigh"}

\* C5 as stated: both encoders, get_command_string of command.rs and build of
\* lib.rs, write a finite calibration value with exactly 2 decimals and a
\* finite temperature with exactly 3 decimals; 10.056 is written 10.06 and
\* 19.5 is written 19.500.
C5_FixedDecimals ==
    /\ (Encoded /\ cmd.t \in CalTypes /\ cmd.v.k = "fin") =>
           DecimalsOf(wire) = 2
    /\ (Encoded /\ cmd.t = "TemperatureCompensation" /\ cmd.v.k = "fin") =>
           DecimalsOf(wire) = 3
    /\ (Encoded /\ cmd = CmdV("CalibrationMid", Fin(10056, 3))) =>
           wire = Stem("CalibrationMid") \o <<"1","0",".","0","6">>
    /\ (Encoded /\ cmd = CmdV("TemperatureCompensation", Fin(195, 1))) =>
           wire = <<"T",",","1","9",".","5","0","0">>
    /\ (Built /\ cmd.t \in CalTypes /\ cmd.v.k = "fin") =>
           DecimalsOf(SubSeq(options.command, 1, Len(options.command) - 1)) = 2
    /\ (Built /\ cmd.t = "TemperatureCompensation" /\ cmd.v.k = "fin") =>
           DecimalsOf(SubSeq(options.command, 1, Len(options.command) - 1)) = 3

\* the command table: type, delay in ms, wire form up to the parameter
CommandTable ==
    {
       [t |-> "Baud",                        d |->   0, w |-> <<"B", "A", "U", "D", ",">>],
       [t |-> "CalibrationMid",              d |-> 900, w |-> <<"C", "A", "L", ",", "M", "I", "D", ",">>],
       [t |-> "CalibrationLow",              d |-> 900, w |-> <<"C", "A", "L", ",", "L", "O", "W", ",">>],
       [t |-> "CalibrationHigh",             d |-> 900, w |-> <<"C", "A", "L", ",", "H", "I", "G", "H", ",">>],
       [t |-> "CalibrationClear",            d |-> 300, w |-> <<"C", "A", "L", ",", "C", "L", "E", "A", "R">>],
       [t |-> "CalibrationState",            d |-> 300, w |-> <<"C", "A", "L", ",", "?">>],
       [t |-> "Export",                      d |-> 300, w |-> <<"E", "X", "P", "O", "R", "T">>],
       [t |-> "ExportInfo",                  d |-> 300, w |-> <<"E", "X", "P", "O", "R", "T", ",", "?">>],
       [t |-> "Import",                      d |-> 300, w |-> <<"I", "M", "P", "O", "R", "T", ",">>],
       [t |-> "Factory",                     d |->   0, w |-> <<"F", "A", "C", "T", "O", "R", "Y">>],
       [t |-> "Find",                        d |-> 300, w |-> <<"F">>],
       [t |-> "DeviceInformation",           d |-> 300, w |-> <<"I">>],
       [t |-> "DeviceAddress",               d |-> 300, w |-> <<"I", "2", "C", ",">>],
       [t |-> "LedOn",                       d |-> 300, w |-> <<"L", ",", "1">>],
       [t |-> "LedOff",                      d |-> 300, w |-> <<"L", ",", "0">>],
       [t |-> "LedState",                    d |-> 300, w |-> <<"L", ",", "?">>],
       [t |-> "ProtocolLockEnable",          d |-> 300, w |-> <<"P", "L", "O", "C", "K", ",", "1">>],
       [t |-> "ProtocolLockDisable",         d |-> 300, w |-> <<"P", "L", "O", "C", "K", ",", "0">>],
       [t |-> "ProtocolLockState",           d |-> 300, w |-> <<"P", "L", "O", "C", "K", ",", "?">>],
       [t |-> "Reading",                     d |-> 900, w |-> <<"R">>],
       [t |-> "Sleep",                       d |->   0, w |-> <<"S", "L", "E", "E", "P">>],
       [t |-> "Slope",                       d |-> 300, w |-> <<"S", "L", "O", "P", "E", ",", "?">>],
       [t |-> "Status",                      d |-> 300, w |-> <<"S", "T", "A", "T", "U", "S">>],
       [t |-> "TemperatureCompensation",     d |-> 300, w |-> <<"T", ",">>],
       [t |-> "CompensatedTemperatureValue", d |-> 300, w |-> <<"T", ",", "?">>] }

TableRow(t) == CHOOSE row \in CommandTable : row.t = t

\* the parameter of the wire form: <n>, <t> with 2 resp. 3 decimals, <s>
TableParameter(c) ==
    CASE c.t \in {"Baud", "DeviceAddress"} -> IntText(c.n)
      [] c.t \in CalTypes -> FmtFixed(c.v, 2)
      [] c.t = "TemperatureCompensation" -> FmtFixed(c.v, 3)
      [] c.t = "Import" -> c.s
      [] OTHER -> <<>>

\* C6: get_command_string and get_delay of every command of command.rs give
\* the wire form and the delay of the command table.
C6_CommandTable ==
    /\ Encoded => wire = TableRow(cmd.t).w \o TableParameter(cmd)
    /\ (cop = "get_delay" /\ called) => delay = TableRow(cmd.t).d

\* get_delay has been called on CalibrationMid(7.0) and returned 900
C6_Witness ==
    /\ cop = "get_delay"
    /\ called
    /\ cmd = CmdV("CalibrationMid", Fin(7, 0))
    /\ delay = 900

\* the expected response of the command table
TableResponse(t) ==
    CASE t \in {"Baud", "Factory", "Find", "DeviceAddress", "Sleep"} -> None
      [] t \in CalTypes \cup {"CalibrationClear", "Import", "LedOn", "LedOff",
                  "ProtocolLockEnable", "ProtocolLockDisable",
                  "TemperatureCompensation"} -> Some("Ack")
      [] t = "TemperatureCompensationValue" -> Some("CompensationValue")
      [] OTHER -> Some(t)

\* C7 as stated: the response that build sets for a command is the one of the
\* command table.
C7_ResponseTable ==
    Built => options.response = TableResponse(cmd.t)

IsAscii(str) == \A i \in 1..Len(str) : str[i] # KelvinSign

ValidThenMore ==
    \E k \in 1..(Len(text) - 1) : from_str(ctype, SubSeq(text, 1, k)).ok

\* the text is a text its parser accepts, then a comma, then any text
ValidThenCommaText ==
    \E k \in 1..(Len(text) - 1) :
        text[k + 1] = "," /\ from_str(ctype, SubSeq(text, 1, k)).ok

\* what follows the prefix of the command in the text
ParameterPart == Rest(ToUpper(text), Len(Stem(ctype)))

\* a field that is a number: digits with a sign or a point
Numeric(field) ==
    /\ \E i \in 1..Len(field) : IsDigit(field[i])
    /\ \A i \in 1..Len(field) : IsDigit(field[i]) \/ field[i] \in {"+", "-", "."}

\* exactly one field follows the prefix; it is a number when the command
\* takes a number
OneParameter ==
    /\ StartsWith(ToUpper(text), Stem(ctype))
    /\ ParameterPart # <<>>
    /\ \A i \in 1..Len(ParameterPart) : ParameterPart[i] # ","
    /\ ctype \in F64Types \cup {"Baud", "DeviceAddress"} =>
           Numeric(ParameterPart)

\* C9 as stated: a valid wire form followed by anything fails with
\* CommandParse, and a command with a parameter is accepted only with exactly
\* one field, numeric where a number is expected.
C9_TrailingRejected ==
    Parsed =>
        /\ ValidThenMore => result.err = "CommandParse"
        /\ (ctype \in ParamTypes /\ result.ok) => OneParameter

\* C9: a valid wire form followed by a comma, with or without text after it,
\* fails with CommandParse; a command without parameter followed by any
\* character fails with CommandParse; a command with a parameter is accepted
\* only with exactly one field, numeric where a number is expected, so that a
\* character appended to a valid parameter is read as part of the parameter;
\* every failure is CommandParse.
C9_TrailingCommaRejected ==
    Parsed =>
        /\ ValidThenCommaText => result.err = "CommandParse"
        /\ (ctype \notin ParamTypes /\ ValidThenMore) =>
               result.err = "CommandParse"
        /\ (ctype \in ParamTypes /\ result.ok) => OneParameter
        /\ ~result.ok => result.err = "CommandParse"

\* CAL,MID,7.00, has been parsed and rejected: CAL,MID,7.00 is valid
C9_Witness ==
    /\ Parsed
    /\ ctype = "CalibrationMid"
    /\ text = Stem("CalibrationMid") \o <<"7",".","0","0",",">>
    /\ ValidThenCommaText
    /\ result.err = "CommandParse"

-----------------------------------------------------------------------------
(* The claims about CommandOptions::run.                                   *)

Attempts(kind) == {i \in 1..Len(events) : events[i].e = kind}

\* the second attempt of an operation comes right after a sleep of 300 ms,
\* which comes right after the failed first attempt
RetriedAfterBackoff(kind) ==
    \A j \in Attempts(kind) :
        (\E i \in Attempts(kind) : i < j) =>
            /\ j >= 3
            /\ events[j - 1] = Slept(300)
            /\ events[j - 2].e = kind
            /\ ~events[j - 2].ok

\* the events without the failed attempts and the sleeps that follow them
RECURSIVE WithoutRetries(_)
WithoutRetries(log) ==
    IF log = <<>> THEN <<>>
    ELSE IF Head(log).e \in {"write", "read"} /\ ~Head(log).ok
    THEN (IF Len(log) >= 2 THEN WithoutRetries(Tail(Tail(log))) ELSE <<>>)
    ELSE <<Head(log)>> \o WithoutRetries(Tail(log))

\* what a run does on a device that never fails and answers with the buffer
ExpectedEvents(o, buffer) ==
    <<Printed("COMMAND: ", o.command, <<>>),
      Event("write", TRUE, 0, "", o.command, <<>>)>>
      \o (IF o.delay = None THEN <<>>
          ELSE <<Slept(CHOOSE d \in o.delay : TRUE)>>)
      \o (IF o.response = None THEN <<>>
          ELSE <<ReadInto(TRUE), StatusLine(buffer)>>)
      \o <<Printed("", <<>>, <<>>)>>

\* C10: one call of run writes at most twice and reads at most twice; a
\* second attempt follows the failure of the first attempt of the same
\* operation and a sleep of 300 ms; when the second attempt fails run returns
\* the error and does nothing more; a run that returns Ok has done, the failed
\* attempts and their backoffs left out, what a run without failure does.
C10_OneRetryAfterBackoff ==
    /\ Cardinality(Attempts("write")) <= 2
    /\ Cardinality(Attempts("read")) <= 2
    /\ RetriedAfterBackoff("write")
    /\ RetriedAfterBackoff("read")
    /\ \A kind \in {"write", "read"} :
           \A i, j \in Attempts(kind) :
               (i < j /\ ~events[j].ok) =>
                   /\ j = Len(events)
                   /\ pc = "done"
                   /\ ~ret.ok
    /\ (pc = "done" /\ ret.ok) =>
           WithoutRetries(events) = ExpectedEvents(opts, data_buffer)

\* a run has returned Ok after a failed and a successful write and a failed
\* and a successful read
C10_Witness ==
    /\ pc = "done"
    /\ ret.ok
    /\ Cardinality(Attempts("write")) = 2
    /\ Cardinality(Attempts("read")) = 2
    /\ events[2] = Wrote(FALSE)
    /\ events[3] = Slept(300)
    /\ events[4] = Wrote(TRUE)

\* a dev.read has filled the buffer and the match on its first byte is over
StatusMatched ==
    /\ pc \in {"return", "done"}
    /\ \E i \in Attempts("read") : events[i].ok

\* the outcome that the caller of run holds
OutcomeOf(r) == IF r.ok THEN "Success" ELSE r.err

\* C11 as stated: when the device answers with status 2, 254 or 255, run
\* returns to its caller an outcome that names the state (the kinds
\* DeviceErrorResponse, PendingResponse, NoDataExpectedResponse), each
\* distinct from the others and from the outcome of a success.
C11_DistinctOutcomes ==
    (pc = "done" /\ StatusMatched) =>
        /\ data_buffer[1] = 2 => OutcomeOf(ret) = "DeviceErrorResponse"
        /\ data_buffer[1] = 254 => OutcomeOf(ret) = "PendingResponse"
        /\ data_buffer[1] = 255 => OutcomeOf(ret) = "NoDataExpectedResponse"

\* the line that the match on the status byte has printed, if any
StatusLinesPrinted ==
    {i \in 1..Len(events) :
        /\ events[i].e = "print"
        /\ i > 1
        /\ events[i - 1].e = "read"}

\* C12: the first byte of the buffer decides the arm, for every value of the
\* byte: 1 is a response, 2 an error, 254 pending, 255 no data expected, and
\* every other value, 0 included, no response; the bytes after the first are
\* decoded only for 1.
C12_StatusClassification ==
    StatusMatched =>
        LET b == data_buffer[1]
            unreadable == pc = "done" /\ ret.err = "Data is not readable"
        IN  /\ b # 1 => ~unreadable
            /\ ~unreadable => Cardinality(StatusLinesPrinted) = 1
            /\ \A i \in StatusLinesPrinted :
                   /\ events[i].msg =
                          CASE b = 1   -> "RESPONSE: "
                            [] b = 2   -> "Error"
                            [] b = 254 -> "Pending"
                            [] b = 255 -> "No data expected."
                            [] OTHER   -> "NO RESPONSE"
                   /\ b # 1 => events[i].codes = <<>>

\* a read has answered with a first byte 0 and a letter behind it, and run
\* has printed NO RESPONSE and nothing of the letter
C12_Witness ==
    /\ StatusMatched
    /\ data_buffer[1] = 0
    /\ data_buffer[2] = 65
    /\ \E i \in StatusLinesPrinted : events[i].msg = "NO RESPONSE"

-----------------------------------------------------------------------------
(* The claims about each response parser.                                  *)

\* the text after the first n characters of the payload
After(n) == SubSeq(payload, n + 1, Len(payload))

\* the positions of the commas of a text
Commas(str) == {i \in 1..Len(str) : str[i] = ","}

\* a text that reads as an f64: a sign or none, then digits with at most one
\* point among them, or one of the words inf and NaN
IsNumber(field) ==
    LET body == IF field # <<>> /\ field[1] \in {"+", "-"}
                THEN Tail(field) ELSE field
    IN  \/ body \in {<<"i","n","f">>, <<"N","a","N">>}
        \/ /\ \E i \in 1..Len(body) : IsDigit(body[i])
           /\ \A i \in 1..Len(body) : IsDigit(body[i]) \/ body[i] = "."
           /\ Cardinality({i \in 1..Len(body) : body[i] = "."}) <= 1

\* C13: CalibrationStatus::parse returns NotCalibrated, OnePoint, TwoPoint,
\* ThreePoint for "?CAL,0", "?CAL,1", "?CAL,2", "?CAL,3" and the error
\* ResponseParse for every other payload.
C13_CalibrationStatusExact ==
    (parser = "CalibrationStatus" /\ Returned) =>
        CASE payload = <<"?","C","A","L",",","0">> ->
                 parsed.ok /\ parsed.val = "NotCalibrated"
          [] payload = <<"?","C","A","L",",","1">> ->
                 parsed.ok /\ parsed.val = "OnePoint"
          [] payload = <<"?","C","A","L",",","2">> ->
                 parsed.ok /\ parsed.val = "TwoPoint"
          [] payload = <<"?","C","A","L",",","3">> ->
                 parsed.ok /\ parsed.val = "ThreePoint"
          [] OTHER -> parsed.err = "ResponseParse"

\* "?CAL,4" has been parsed and rejected
C13_Witness ==
    /\ parser = "CalibrationStatus"
    /\ payload = <<"?","C","A","L",",","4">>
    /\ parsed.err = "ResponseParse"

\* the restart reason of a code of the data sheet
ReasonOfCode(c) ==
    CASE c = "P" -> "PoweredOff"
      [] c = "S" -> "SoftwareReset"
      [] c = "B" -> "BrownOut"
      [] c = "W" -> "Watchdog"
      [] c = "U" -> "Unknown"

\* the payload is ?STATUS,<c>,<v>: one of the five codes, a comma, a number
IsStatusPayload ==
    /\ Len(payload) >= 10
    /\ SubSeq(payload, 1, 8) = <<"?","S","T","A","T","U","S",",">>
    /\ payload[9] \in {"P", "S", "B", "W", "U"}
    /\ payload[10] = ","
    /\ IsNumber(After(10))

\* C14: DeviceStatus::parse returns Ok exactly for the payloads
\* ?STATUS,<c>,<v> with c one of P, S, B, W, U and v a text that reads as an
\* f64; the reason is the one of the code and vcc_voltage the value of v;
\* every other payload is the error ResponseParse.
C14_DeviceStatusExact ==
    (parser = "DeviceStatus" /\ Returned) =>
        IF IsStatusPayload
        THEN /\ parsed.ok
             /\ parsed.val.restart_reason = ReasonOfCode(payload[9])
             /\ parsed.val.vcc_voltage = F64FromStr(After(10)).val
        ELSE parsed.err = "ResponseParse"

\* "?STATUS,P,1.5" has been parsed as PoweredOff at 1.5 V
C14_Witness ==
    /\ parser = "DeviceStatus"
    /\ payload = <<"?","S","T","A","T","U","S",",","P",",","1",".","5">>
    /\ parsed.ok
    /\ parsed.val = [restart_reason |-> "PoweredOff", vcc_voltage |-> Fin(15, 1)]

\* C15: DeviceInfo::parse returns Ok exactly for the payloads that are "?I,"
\* and two fields with one comma between them, empty or not: the first is
\* device, the second firmware; every other payload, "?I" and "?I," and
\* those with three fields or more among them, is the error ResponseParse.
C15_DeviceInfoExact ==
    (parser = "DeviceInfo" /\ Returned) =>
        IF /\ Len(payload) >= 3
           /\ SubSeq(payload, 1, 3) = <<"?","I",",">>
           /\ Cardinality(Commas(After(3))) = 1
        THEN LET comma == CHOOSE i \in Commas(After(3)) : TRUE
             IN  /\ parsed.ok
                 /\ parsed.val.device = SubSeq(After(3), 1, comma - 1)
                 /\ parsed.val.firmware =
                        SubSeq(After(3), comma + 1, Len(After(3)))
        ELSE parsed.err = "ResponseParse"

\* "?I,," has been parsed as an empty device and an empty firmware
C15_Witness ==
    /\ parser = "DeviceInfo"
    /\ payload = <<"?","I",",",",">>
    /\ parsed.ok
    /\ parsed.val = [device |-> <<>>, firmware |-> <<>>]

Printable(str) == \A i \in 1..Len(str) : str[i] # ControlChar

\* C16 as stated: Exported::parse returns Done for "*DONE", ExportString(p)
\* for the payloads p of 1 to 12 printable characters that do not start with
\* '*', and the error ResponseParse for every other payload.
C16_ExportedPrintable ==
    (parser = "Exported" /\ Returned) =>
        CASE payload = <<"*","D","O","N","E">> ->
                 parsed.ok /\ parsed.val.t = "Done"
          [] /\ Len(payload) \in 1..12
             /\ Printable(payload)
             /\ payload[1] # "*" ->
                 /\ parsed.ok
                 /\ parsed.val = [t |-> "ExportString", s |-> payload]
          [] OTHER -> parsed.err = "ResponseParse"

\* C16: Exported::parse returns Done for "*DONE", ExportString(p) with p
\* unchanged for the payloads p of 1 to 12 bytes that do not start with '*',
\* whatever their characters, and the error ResponseParse for every other
\* payload: the empty one, those of 13 bytes or more, and those that start
\* with '*' and are not "*DONE".
C16_ExportedBytes ==
    (parser = "Exported" /\ Returned) =>
        CASE payload = <<"*","D","O","N","E">> ->
                 parsed.ok /\ parsed.val.t = "Done"
          [] /\ ByteLen(payload) \in 1..12
             /\ payload[1] # "*" ->
                 /\ parsed.ok
                 /\ parsed.val = [t |-> "ExportString", s |-> payload]
          [] OTHER -> parsed.err = "ResponseParse"

\* a payload of 13 letters has been parsed and rejected
C16_Witness ==
    /\ parser = "Exported"
    /\ payload = Rep("A", 13)
    /\ parsed.err = "ResponseParse"

\* a text that reads as a u16: a + or none, then digits, of value 65535 at most
IsU16(field) ==
    LET body == IF field # <<>> /\ field[1] = "+" THEN Tail(field) ELSE field
    IN  /\ body # <<>>
        /\ AllDigits(body)
        /\ DigitsVal(body) <= 65535

\* the value of a text that reads as a u16
U16Of(field) ==
    DigitsVal(IF field[1] = "+" THEN Tail(field) ELSE field)

\* the field before and the field after the only comma of a text
FirstOfTwo(str) == SubSeq(str, 1, (CHOOSE i \in Commas(str) : TRUE) - 1)
SecondOfTwo(str) ==
    SubSeq(str, (CHOOSE i \in Commas(str) : TRUE) + 1, Len(str))

\* C17: ExportedInfo::parse returns Ok exactly for the payloads
\* ?EXPORT,<a>,<b> with a and b decimal integers of 0..65535, and then lines
\* is a and total_bytes is b, never a value modulo 65536; every other payload
\* is the error ResponseParse.
C17_ExportedInfoExact ==
    (parser = "ExportedInfo" /\ Returned) =>
        IF /\ Len(payload) >= 8
           /\ SubSeq(payload, 1, 8) = <<"?","E","X","P","O","R","T",",">>
           /\ Cardinality(Commas(After(8))) = 1
           /\ IsU16(FirstOfTwo(After(8)))
           /\ IsU16(SecondOfTwo(After(8)))
        THEN /\ parsed.ok
             /\ parsed.val.lines = U16Of(FirstOfTwo(After(8)))
             /\ parsed.val.total_bytes = U16Of(SecondOfTwo(After(8)))
        ELSE parsed.err = "ResponseParse"

\* "?EXPORT,65536,0" has been parsed and rejected
C17_Witness ==
    /\ parser = "ExportedInfo"
    /\ payload = <<"?","E","X","P","O","R","T",",","6","5","5","3","6",",","0">>
    /\ parsed.err = "ResponseParse"

\* C18: ProbeSlope::parse returns Ok exactly for the payloads that are
\* "?SLOPE," and two fields that read as f64, with one comma between them:
\* the first is acid_end and the second base_end, of any sign and size; every
\* other payload is the error ResponseParse.
C18_ProbeSlopeExact ==
    (parser = "ProbeSlope" /\ Returned) =>
        IF /\ Len(payload) >= 7
           /\ SubSeq(payload, 1, 7) = <<"?","S","L","O","P","E",",">>
           /\ Cardinality(Commas(After(7))) = 1
           /\ IsNumber(FirstOfTwo(After(7)))
           /\ IsNumber(SecondOfTwo(After(7)))
        THEN /\ parsed.ok
             /\ parsed.val.acid_end = F64FromStr(FirstOfTwo(After(7))).val
             /\ parsed.val.base_end = F64FromStr(SecondOfTwo(After(7))).val
        ELSE parsed.err = "ResponseParse"

\* "?SLOPE,99.7,-100.3" has been parsed as 99.7 and -100.3
C18_Witness ==
    /\ parser = "ProbeSlope"
    /\ payload = <<"?","S","L","O","P","E",",",
                   "9","9",".","7",",","-","1","0","0",".","3">>
    /\ parsed.ok
    /\ parsed.val = [acid_end |-> Fin(997, 1), base_end |-> Fin(-1003, 1)]

\* C19: LedStatus::parse returns On for "?L,1", Off for "?L,0", and
\* ProtocolLockStatus::parse returns On for "?PLOCK,1", Off for "?PLOCK,0";
\* every other payload is the error ResponseParse.
C19_OnOffExact ==
    /\ (parser = "LedStatus" /\ Returned) =>
           CASE payload = <<"?","L",",","1">> -> parsed.ok /\ parsed.val = "On"
             [] payload = <<"?","L",",","0">> -> parsed.ok /\ parsed.val = "Off"
             [] OTHER -> parsed.err = "ResponseParse"
    /\ (parser = "ProtocolLockStatus" /\ Returned) =>
           CASE payload = <<"?","P","L","O","C","K",",","1">> ->
                    parsed.ok /\ parsed.val = "On"
             [] payload = <<"?","P","L","O","C","K",",","0">> ->
                    parsed.ok /\ parsed.val = "Off"
             [] OTHER -> parsed.err = "ResponseParse"

\* "?L,17" has been parsed and rejected
C19_Witness ==
    /\ parser = "LedStatus"
    /\ payload = <<"?","L",",","1","7">>
    /\ parsed.err = "ResponseParse"

\* the echo token that a parser expects at the head of the payload
EchoToken(name) ==
    CASE name = "CalibrationStatus"  -> <<"?","C","A","L",",">>
      [] name = "ExportedInfo"       -> <<"?","E","X","P","O","R","T",",">>
      [] name = "DeviceInfo"         -> <<"?","I",",">>
      [] name = "LedStatus"          -> <<"?","L",",">>
      [] name = "ProtocolLockStatus" -> <<"?","P","L","O","C","K",",">>
      [] name = "ProbeSlope"         -> <<"?","S","L","O","P","E",",">>
      [] name = "DeviceStatus"       -> <<"?","S","T","A","T","U","S",",">>
      [] name = "CompensationValue"  -> <<"?","T",",">>

\* C20: each of the eight parsers of a prefixed response returns the error
\* ResponseParse for every payload whose head is not its echo token letter
\* for letter, upper case included: a token in another case is no token.
C20_PrefixCaseSensitive ==
    (parser \in NoTruncationParsers /\ Returned
       /\ ~(/\ Len(payload) >= Len(EchoToken(parser))
            /\ SubSeq(payload, 1, Len(EchoToken(parser))) = EchoToken(parser))) =>
        parsed.err = "ResponseParse"

\* "?cal,1" has been parsed and rejected
C20_Witness ==
    /\ parser = "CalibrationStatus"
    /\ payload = <<"?","c","a","l",",","1">>
    /\ parsed.err = "ResponseParse"


-----------------------------------------------------------------------------
(* The claims about the bytes that run exchanges with the device.          *)

\* the text is not empty and its last byte is NUL
EndsWithNul(str) == str # <<>> /\ str[Len(str)] = NUL

\* C21: the command of the CommandOptions that build produced, for every
\* variant of PhCommand, ends with a NUL byte, and every dev.write of run, the
\* retry included, writes exactly that command, so that the last byte written
\* is NUL.
C21_NulTerminated ==
    /\ EndsWithNul(opts.command)
    /\ \A i \in Attempts("write") :
           /\ events[i].txt = opts.command
           /\ EndsWithNul(events[i].txt)

\* run has written the command of a temperature compensation twice, the
\* first write having failed, and has returned
C21_Witness ==
    /\ pc = "done"
    /\ opts = build(CmdV("TemperatureCompensation", Fin(195, 1)))
    /\ Cardinality(Attempts("write")) = 2
    /\ \A i \in Attempts("write") : events[i].txt = <<"T", ",", "1", "9", ".", "5", NUL>>


\* both attempts of the operation have failed
BothFailed(kind) ==
    \E i, j \in Attempts(kind) : i < j /\ ~events[i].ok /\ ~events[j].ok

\* the events of run up to the write that succeeded and the delay of the
\* command, when the first write failed or not
WrittenAndSettled(firstFailed) ==
    <<Printed("COMMAND: ", opts.command, <<>>)>>
      \o (IF firstFailed THEN <<Wrote(FALSE), Slept(RetryBackoff)>> ELSE <<>>)
      \o <<Wrote(TRUE)>>
      \o (IF opts.delay = None THEN <<>>
          ELSE <<Slept(CHOOSE d \in opts.delay : TRUE)>>)

\* C23: when both writes fail, run has returned an error, and all it has done
\* is to print the command, write, sleep the 300 ms of the retry and write:
\* no sleep for the delay of the command and no read; when the write
\* succeeded and both reads fail, run has returned an error, the failed read
\* is the last thing it has done, and the buffer was neither filled nor
\* matched; in both cases nothing is written after the failure.
C23_FailureEndsRun ==
    /\ BothFailed("write") =>
           /\ pc = "done"
           /\ ret = Err("Command could not be sent")
           /\ events = <<Printed("COMMAND: ", opts.command, <<>>),
                         Wrote(FALSE), Slept(RetryBackoff), Wrote(FALSE)>>
    /\ BothFailed("read") =>
           /\ pc = "done"
           /\ ret = Err("Error reading from device")
           /\ data_buffer = ZeroBuffer
           /\ StatusLinesPrinted = {}
           /\ \E firstFailed \in BOOLEAN :
                  events = WrittenAndSettled(firstFailed)
                             \o <<ReadInto(FALSE), Slept(RetryBackoff),
                                  ReadInto(FALSE)>>

\* run has returned the error of a write that failed twice
C23_WitnessWrite ==
    /\ pc = "done"
    /\ BothFailed("write")
    /\ opts = build(Cmd0("Reading"))

\* run has returned the error of a read that failed twice, after a write
\* that succeeded at its second attempt and the delay of the command
C23_Witness ==
    /\ pc = "done"
    /\ BothFailed("read")
    /\ opts = build(Cmd0("Reading"))
    /\ Cardinality(Attempts("write")) = 2
    /\ ret = Err("Error reading from device")


\* the bytes of the buffer after the status byte and before the first NUL
\* byte, or to the end of the buffer when it holds no NUL byte, each with its
\* eighth bit cleared
MaskedPayload(buffer) ==
    LET eol == IF ZeroPosition(buffer) = 0 THEN Len(buffer) + 1
               ELSE ZeroPosition(buffer)
    IN  [i \in 1..(eol - 2) |-> MaskHighBit(buffer[i + 1])]

\* C24 as stated: when the status byte is 1, the payload that run decodes is
\* the bytes of the buffer from index 1 to the first NUL byte, each with its
\* eighth bit cleared, so that every character has a code below 128 and no
\* byte after the first NUL is part of it, for every content of the buffer,
\* the ones without a NUL byte included.
C24_MaskedPayload ==
    (StatusMatched /\ data_buffer[1] = 1) =>
        /\ DecodeData(data_buffer) = Ok(MaskedPayload(data_buffer))
        /\ \E i \in StatusLinesPrinted :
               /\ events[i].codes = MaskedPayload(data_buffer)
               /\ Len(events[i].codes) <= BufLen - 1
               /\ \A k \in 1..Len(events[i].codes) : events[i].codes[k] < 128


-----------------------------------------------------------------------------
(* The claims about the parser of Import, the delays and the two encoders. *)

\* Import::from_str has been given IMPORT, in some letter case and a text
ImportParsed ==
    /\ Parsed
    /\ ctype = "Import"
    /\ Len(text) >= 7
    /\ ToUpper(SubSeq(text, 1, 7)) = Stem("Import")

\* what follows IMPORT, in the text given to from_str
ImportText == SubSeq(text, 8, Len(text))

\* C25 as stated: IMPORT,<s> is accepted exactly when s has 1 to 12
\* characters and holds no comma, the command then carrying s in upper case;
\* every other s is a CommandParse error.
C25_ImportCharacters ==
    ImportParsed =>
        /\ result.ok <=> (Len(ImportText) \in 1..12 /\ Commas(ImportText) = {})
        /\ result.ok => result.val = CmdS("Import", ToUpper(ImportText))
        /\ ~result.ok => result.err = "CommandParse"

\* C25: IMPORT,<s>, the prefix in any letter case, is accepted exactly when
\* the upper-cased s takes 1 to 12 bytes in UTF-8 and holds no comma, the
\* command then carrying s in upper case; an empty s, an s of 13 bytes or
\* more and a second field are CommandParse errors.
C25_ImportBytes ==
    ImportParsed =>
        /\ result.ok <=> (ByteLen(ToUpper(ImportText)) \in 1..12
                            /\ Commas(ImportText) = {})
        /\ result.ok => result.val = CmdS("Import", ToUpper(ImportText))
        /\ ~result.ok => result.err = "CommandParse"

\* import,abcdef has been parsed as Import("ABCDEF")
C25_Witness ==
    /\ ImportParsed
    /\ text = <<"i","m","p","o","r","t",",","a","b","c","d","e","f">>
    /\ result = Ok(CmdS("Import", <<"A","B","C","D","E","F">>))


\* the delays of the commands, in milliseconds
Delays == {0, 300, 900}

\* C26: the delay of every command of command.rs is 0, 300 or 900 ms, and
\* the delay that build sets for every PhCommand is unset, 300 or 900 ms; a
\* command whose Response type is not None, and a PhCommand for which build
\* sets a response, has a delay of 300 ms at least.
C26_DelayBeforeRead ==
    /\ (cop = "get_delay" /\ called) =>
           /\ delay \in Delays
           /\ ResponseType(cmd) # "None" => delay >= 300
    /\ Built =>
           /\ options.delay \in {None} \cup {Some(d) : d \in Delays \ {0}}
           /\ options.response # None =>
                  \E d \in options.delay : d >= 300

\* build has been called on PhCommand::Reading and has set the delay 900 and
\* the response Reading
C26_Witness ==
    /\ Built
    /\ cmd = Cmd0("Reading")
    /\ options.delay = Some(900)
    /\ options.response # None


\* the command of command.rs that stands for the same command as a PhCommand
CommandOf(c) ==
    IF c.t = "TemperatureCompensationValue"
    THEN Cmd0("CompensatedTemperatureValue")
    ELSE c

\* the CommandResponse of lib.rs of the same shape as a Response type of
\* command.rs, as an Option
ShapeOf(responseType) ==
    CASE responseType = "None"               -> None
      [] responseType = "Ack"                -> Some("Ack")
      [] responseType = "CalibrationStatus"  -> Some("CalibrationState")
      [] responseType = "Exported"           -> Some("Export")
      [] responseType = "ExportedInfo"       -> Some("ExportInfo")
      [] responseType = "DeviceInfo"         -> Some("DeviceInformation")
      [] responseType = "LedStatus"          -> Some("LedState")
      [] responseType = "ProtocolLockStatus" -> Some("ProtocolLockState")
      [] responseType = "SensorReading"      -> Some("Reading")
      [] responseType = "ProbeSlope"         -> Some("Slope")
      [] responseType = "DeviceStatus"       -> Some("Status")
      [] responseType = "CompensationValue"  -> Some("CompensationValue")

\* the delay of a CommandOptions in milliseconds, an unset delay being 0
DelayOf(o) == IF o.delay = None THEN 0 ELSE CHOOSE d \in o.delay : TRUE

\* the command of a CommandOptions without its last byte
WithoutNul(o) == SubSeq(o.command, 1, Len(o.command) - 1)

\* C27 as stated: for every PhCommand, build gives the delay, the expected
\* response and, letter case and the final NUL apart, the wire string that
\* the same command of command.rs gives, its parameter rendered the same way;
\* and every parameter of a command of command.rs is one of the PhCommand.
C27_SameProtocol ==
    /\ Built =>
           /\ DelayOf(options) = get_delay(CommandOf(cmd))
           /\ options.response = ShapeOf(ResponseType(CommandOf(cmd)))
           /\ ToUpper(WithoutNul(options)) =
                  ToUpper(get_command_string(CommandOf(cmd)))
    /\ (cop = "new" /\ called /\ result.ok /\ cmd.t = "DeviceAddress") =>
           cmd.n <= U8Max


\* the command types whose from_str accepts the text
Accepting(str) == {t \in CommandTypes : from_str(t, str).ok}

\* the query forms, and the parsers of the commands with the same prefix
\* that set a value
QueryForms ==
    { [w |-> <<"T", ",", "?">>, by |-> {"TemperatureCompensation"}],
      [w |-> <<"C", "A", "L", ",", "?">>,
       by |-> {"CalibrationMid", "CalibrationLow", "CalibrationHigh"}],
      [w |-> <<"L", ",", "?">>, by |-> {"LedOn", "LedOff"}],
      [w |-> <<"P", "L", "O", "C", "K", ",", "?">>,
       by |-> {"ProtocolLockEnable", "ProtocolLockDisable"}],
      [w |-> <<"E", "X", "P", "O", "R", "T", ",", "?">>, by |-> {"Export"}] }

\* C28: a text that the from_str of one command type accepts is accepted by
\* the from_str of no other command type; the query forms T,? CAL,? L,?
\* PLOCK,? and EXPORT,? in any letter case are rejected by the parsers of the
\* commands that set the value or start the export, and I2C,<n> is rejected
\* by the parser of DeviceInformation.
C28_ParsersExclusive ==
    Parsed =>
        /\ result.ok => Accepting(text) = {ctype}
        /\ \A q \in QueryForms :
               (ToUpper(text) = q.w /\ ctype \in q.by) => ~result.ok
        /\ (ctype = "DeviceInformation"
              /\ StartsWith(ToUpper(text), Stem("DeviceAddress"))) => ~result.ok

\* I2C,300 has been given to the parser of DeviceInformation, which rejected
\* it, and the parser of DeviceAddress alone accepts it
C28_Witness ==
    /\ Parsed
    /\ ctype = "DeviceInformation"
    /\ text = <<"I", "2", "C", ",", "3", "0", "0">>
    /\ ~result.ok
    /\ Accepting(text) = {"DeviceAddress"}

\* l,? has been given to the parser of LedOn, which rejected it
C28_WitnessQuery ==
    /\ Parsed
    /\ ctype = "LedOn"
    /\ ToUpper(text) = <<"L", ",", "?">>
    /\ ~result.ok
    /\ Accepting(text) = {"LedState"}


-----------------------------------------------------------------------------
(* The claims about the order of the bus events and about CommandOptions.  *)

\* the positions of a log of bus events: the writes that succeeded, the
\* reads, and the sleeps that come right after a write that succeeded
WritesDone(log) == {i \in 1..Len(log) : log[i].e = "write" /\ log[i].ok}
ReadsOf(log) == {i \in 1..Len(log) : log[i].e = "read"}
SettleSleeps(log) ==
    {i \in 2..Len(log) : log[i].e = "sleep" /\ (i - 1) \in WritesDone(log)}

\* write, then the delay of the command, then read: one write succeeds at
\* most; a read comes after the write that succeeded and, when the options
\* hold a delay, after the sleep of that delay, which follows the write at
\* once; no other sleep than this one and the 300 ms after a failed attempt
\* takes place; there is a read only when the options hold a response
InOrder(log, o) ==
    /\ Cardinality(WritesDone(log)) <= 1
    /\ \A j \in ReadsOf(log) :
           \E i \in WritesDone(log) :
               /\ i < j
               /\ o.delay # None => (i + 1 < j /\ (i + 1) \in SettleSleeps(log))
    /\ Cardinality(SettleSleeps(log)) <= 1
    /\ \A i \in SettleSleeps(log) : o.delay = Some(log[i].ms)
    /\ \A i \in 1..Len(log) :
           (log[i].e = "sleep" /\ i \notin SettleSleeps(log)) =>
               /\ log[i] = Slept(RetryBackoff)
               /\ i > 1
               /\ log[i - 1].e \in {"write", "read"}
               /\ ~log[i - 1].ok
    /\ ReadsOf(log) # {} => o.response # None

\* the log of a run that has returned: when a write succeeded, the delay of
\* the options was slept once and, when the options hold a response, a read
\* was attempted; a run that returned Ok had a write that succeeded
Complete(log, o, ok) ==
    /\ InOrder(log, o)
    /\ ok => WritesDone(log) # {}
    /\ WritesDone(log) # {} =>
           /\ o.delay # None => Cardinality(SettleSleeps(log)) = 1
           /\ o.response # None <=> ReadsOf(log) # {}
           /\ Len(log) > 0 /\ log[Len(log)].e # "write" =>
                  \/ o.response = None
                  \/ log[Len(log)].e = "read"

\* C22: in one call of run the bus events are in the order write, sleep of
\* the delay, read: no read before a write has succeeded and the delay, when
\* one is set, was slept; the delay is slept once, for the time that the
\* options hold; a read is attempted exactly when the options hold a
\* response; and a call of run starts after the call before it has returned,
\* its events complete.
C22_WriteSleepRead ==
    /\ InOrder(SelectSeq(events, IsBus), opts)
    /\ pc = "done" => Complete(SelectSeq(events, IsBus), opts, ret.ok)
    /\ \A k \in 1..Len(history) :
           Complete(history[k].bus, opts, history[k].ok)

\* a second call of run, after a first one that has written, slept 900 ms
\* and read, has written, slept and read in its turn
C22_Witness ==
    /\ Len(history) = 1
    /\ history[1].ok
    /\ history[1].bus = <<Event("write", TRUE, 0, "", <<"R", NUL>>, <<>>),
                          Slept(900), ReadInto(TRUE)>>
    /\ pc = "done"
    /\ ret.ok
    /\ SelectSeq(events, IsBus) = history[1].bus

\* a call of run on options without a response has returned Ok without a
\* read
C22_WitnessNoRead ==
    /\ pc = "done"
    /\ ret.ok
    /\ opts = Options(<<"R", NUL>>, Some(900), None)
    /\ ReadsOf(SelectSeq(events, IsBus)) = {}


\* the texts written and the delays slept, the 300 ms of the retries apart,
\* in a log of bus events
BytesWritten(log) == {log[i].txt : i \in {j \in 1..Len(log) : log[j].e = "write"}}
DelaysWaited(log) == {log[i].ms : i \in SettleSleeps(log)}

\* C29: set_command, set_delay and set_response each leave the CommandOptions
\* as it was but for their own field, which holds the argument; finish returns
\* a value equal to the CommandOptions and leaves it as it was;
\* CommandOptions::default() has an empty command, no delay and no response;
\* the CommandOptions is during and after a call of run what it was before,
\* and a second call of run on it writes the bytes and sleeps the delay of
\* the first.
C29_OptionsUnchanged ==
    /\ last.op = "none" =>
           (opts.command = <<>> /\ opts.delay = None /\ opts.response = None)
    /\ last.op = "set_command" =>
           \E s \in SessionCommands :
               opts = [command |-> s, delay |-> last.before.delay,
                       response |-> last.before.response]
    /\ last.op = "set_delay" =>
           \E d \in SessionDelays :
               opts = [command |-> last.before.command, delay |-> Some(d),
                       response |-> last.before.response]
    /\ last.op = "set_response" =>
           \E r \in SessionResponses :
               opts = [command |-> last.before.command,
                       delay |-> last.before.delay, response |-> Some(r)]
    /\ last.op = "finish" => (copy = opts /\ opts = last.before)
    /\ last.op = "run" =>
           /\ opts = last.before
           /\ \A k \in 1..Len(history) :
                  LET log == SelectSeq(events, IsBus)
                  IN  /\ BytesWritten(log) \subseteq {opts.command}
                      /\ BytesWritten(history[k].bus) = {opts.command}
                      /\ DelaysWaited(log) \subseteq opts.delay
                      /\ DelaysWaited(history[k].bus) \subseteq opts.delay
                      /\ (pc = "done" /\ ret.ok /\ history[k].ok) =>
                             /\ BytesWritten(log) = BytesWritten(history[k].bus)
                             /\ DelaysWaited(log) = DelaysWaited(history[k].bus)

\* set_delay has been called on a CommandOptions that held a command and a
\* response, and both are still there
C29_WitnessSetDelay ==
    /\ pc = "caller"
    /\ last = Call("set_delay", Options(<<"R", NUL>>, None, Some("Reading")))
    /\ opts = Options(<<"R", NUL>>, Some(900), Some("Reading"))

\* the CommandOptions of a reading has been run twice with success, and is
\* what set_command, set_delay and set_response made it
C29_Witness ==
    /\ last.op = "run"
    /\ opts = Options(<<"R", NUL>>, Some(900), Some("Reading"))
    /\ Len(history) = 1
    /\ history[1].ok
    /\ pc = "done"
    /\ ret.ok
    /\ DelaysWaited(SelectSeq(events, IsBus)) = {900}
    /\ DelaysWaited(history[1].bus) = {900}


-----------------------------------------------------------------------------
(* The claim about the loop of examples/read-loop.rs.                      *)

\* run of the example has returned, which it does with an error only
LoopEnded == lpc \in {"exit", "exited"}

\* C30: the commands that the example runs are Reading, Sleep, Reading,
\* Sleep, ... from the first one on; a Sleep is run only after the Reading
\* before it returned a reading, which lies between 0 and 14; a command that
\* returns an error, whatever its kind, is the last one that the example
\* runs, and ends the loop.
C30_ReadingSleepAlternate ==
    /\ \A i \in 1..Len(sent) :
           /\ sent[i].cmd = IF i % 2 = 1 THEN "Reading" ELSE "Sleep"
           /\ sent[i].cmd = "Sleep" =>
                  /\ sent[i - 1].out.ok
                  /\ F64Ge(sent[i - 1].out.val, PROBE_LOWER_LIMIT)
                  /\ F64Le(sent[i - 1].out.val, PROBE_UPPER_LIMIT)
           /\ ~sent[i].out.ok => (i = Len(sent) /\ LoopEnded)
    /\ (LoopEnded /\ sent # <<>>) => ~sent[Len(sent)].out.ok

\* the second Reading of the loop has returned the error of a reading out of
\* range, after a Reading and a Sleep that succeeded, and has ended the loop
C30_Witness ==
    /\ LoopEnded
    /\ Len(sent) = 3
    /\ sent[1].out.ok
    /\ sent[2] = Sent("Sleep", Ok("unit"))
    /\ sent[3] = Sent("Reading", Err("InvalidReading"))

\* a Sleep that failed has ended the loop
C30_WitnessSleep ==
    /\ LoopEnded
    /\ Len(sent) = 4
    /\ sent[4] = Sent("Sleep", Err("I2CRead"))

=============================================================================
